---- MODULE Spec2Model ----
(***************************************************************************)
(* A model of the adsim simulation engine (packages/sim/src/adsim):        *)
(* seeded RNG, keyword matching, the auction, click/conversion sampling    *)
(* and the day engine (simulate_day / simulate_run).                       *)
(*                                                                         *)
(* Numbers.  Python floats are modelled in fixed point: a value v is the   *)
(* integer v * FP.  Money, scores, probabilities and ad ranks all use the  *)
(* same unit, products and quotients round toward minus infinity.          *)
(*                                                                         *)
(* Randomness.  random.Random(seed) is a fixed but unknown stream: the     *)
(* variable tape memoizes, per seed, the raw uniform draws already made,   *)
(* so that a second generator built from the same seed replays them and a  *)
(* draw past the end of the tape may be any value of RandVals.             *)
(***************************************************************************)
EXTENDS Integers, Sequences, FiniteSets, TLC

VARIABLES
    heap,          \* SimState objects by reference
    tape,          \* seed -> raw draws made so far by generators of that seed
    rng,           \* the SeededRNG object in use: [seed, pos]
    script,        \* the calls the driver still has to make
    call,          \* the call being executed (or the idle call)
    run,           \* locals of simulate_run
    day,           \* locals of simulate_day
    results,       \* call name -> returned daily metrics
    auction_call,  \* last direct call of run_auction: arguments and result
    cpc_call,      \* last direct calls of calculate_cpc: arguments and results
    unit_call,     \* last direct call of another function on its own: arguments and results
    task_layer     \* the broker's queue, the workers' tasks and the rows of the database

vars == <<heap, tape, rng, script, call, run, day, results, auction_call, cpc_call,
          unit_call, task_layer>>

----------------------------------------------------------------------------
(* Fixed-point arithmetic *)

FP == 100 * 100

Mul(a, b) == (a * b) \div FP
Div(a, b) == (a * FP) \div b
Max(a, b) == IF a >= b THEN a ELSE b
Min(a, b) == IF a <= b THEN a ELSE b

RECURSIVE SumSeq(_)
SumSeq(s) == IF s = <<>> THEN 0 ELSE s[1] + SumSeq(Tail(s))

RECURSIVE MaxSeq(_)
MaxSeq(s) == IF Len(s) = 1 THEN s[1] ELSE Max(s[1], MaxSeq(Tail(s)))

RemoveAt(s, i) == [k \in 1..(Len(s) - 1) |-> IF k < i THEN s[k] ELSE s[k + 1]]

\* math.exp(-x) for x >= 0, by 2^(-x/ln 2) with the fraction interpolated
\* linearly; exp(0) = 1, weakly decreasing, underflows to 0.
exp_neg(x) ==
    LET n == x \div 6931
        f == x % 6931
        m == FP - ((f * FP) \div (2 * 6931))
    IN  IF n > 14 THEN 0 ELSE m \div (2 ^ n)

----------------------------------------------------------------------------
(* rng.py *)

\* The raw uniform values in [0, 1) a draw may take.
RandVals == {4500, 9999}

NoSeed == 0 - 1

\* SeededRNG.bernoulli: random() < p
bernoulli(u, p) == u < p

\* SeededRNG.uniform: a + (b - a) * random()
uniform(u, a, b) == a + Mul(b - a, u)

\* SeededRNG.noise: base * (1 + uniform(-variance, variance))
noise(u, base, variance) == Mul(base, FP + uniform(u, 0 - variance, variance))

\* SeededRNG.randint(a, b): uniform over a..b
randint(u, a, b) == a + ((u * (b - a + 1)) \div FP)

\* SeededRNG.choices(range(n), weights)[0], 0-based:
\* bisect(cum_weights, random() * total, 0, n - 1)
choices(u, weights) ==
    LET n == Len(weights)
        cum == [i \in 1..n |-> SumSeq(SubSeq(weights, 1, i))]
        x == Mul(u, cum[n])
    IN  Cardinality({i \in 1..(n - 1) : cum[i] <= x})

\* A generator of the day that goes on where the last generator made for the
\* same day stopped, instead of starting from its seed.
create_day_rng_resumed(base_seed, d) ==
    [seed |-> base_seed * 1000000 + d, pos |-> Len(tape[base_seed * 1000000 + d])]

\* create_day_rng: a generator seeded with base_seed * 1000000 + day,
\* positioned at the start of its stream.
day_seed(base_seed, d) == base_seed * 1000000 + d
create_day_rng(base_seed, d) == [seed |-> day_seed(base_seed, d), pos |-> 0]

----------------------------------------------------------------------------
(* auction.py *)

tau == 6500
default_min_cpc == 100
default_epsilon == 100
default_max_positions == 8
default_min_ad_rank == 1000

\* AuctionEntry.ad_rank
ad_rank(e) == Mul(Mul(Mul(e.bid, e.quality_score), e.context_factor), e.format_factor)

\* The rng argument of softmax_positions / run_auction: None, or the raw
\* draws the generator will return.
NoRng == [none |-> TRUE, raw |-> <<>>]
WithRng(raw) == [none |-> FALSE, raw |-> raw]

\* sorted(range(n), key=lambda i: -keys[i]): stable, descending.
RECURSIVE sorted_desc(_, _)
sorted_desc(keys, n) ==
    IF n = 0 THEN <<>>
    ELSE LET prev == sorted_desc(keys, n - 1)
             \* n goes after every index whose key is >= keys[n]
             k == Cardinality({j \in 1..Len(prev) : keys[prev[j]] >= keys[n]})
         IN  SubSeq(prev, 1, k) \o <<n>> \o SubSeq(prev, k + 1, Len(prev))

\* The sampling loop with "remaining_indices.remove(winner_idx)" left out.
RECURSIVE allocate_no_remove(_, _, _, _, _)
allocate_no_remove(probs, remaining_indices, position, raw, positions) ==
    IF position > Len(probs) \/ remaining_indices = <<>> THEN positions
    ELSE LET m == Len(remaining_indices)
             picked == [k \in 1..m |-> probs[remaining_indices[k]]]
             total_prob == SumSeq(picked)
             remaining_probs ==
                 IF total_prob <= 0
                 THEN [k \in 1..m |-> FP \div m]
                 ELSE [k \in 1..m |-> Div(picked[k], total_prob)]
             winner_idx == remaining_indices[choices(raw[position], remaining_probs) + 1]
         IN  allocate_no_remove(probs, remaining_indices, position + 1, raw,
                                [positions EXCEPT ![winner_idx] = position])

\* The sampling loop of softmax_positions: one draw per position.
RECURSIVE allocate(_, _, _, _, _)
allocate(probs, remaining_indices, position, raw, positions) ==
    IF position > Len(probs) \/ remaining_indices = <<>> THEN positions
    ELSE LET m == Len(remaining_indices)
             picked == [k \in 1..m |-> probs[remaining_indices[k]]]
             total_prob == SumSeq(picked)
             remaining_probs ==
                 IF total_prob <= 0
                 THEN [k \in 1..m |-> FP \div m]
                 ELSE [k \in 1..m |-> Div(picked[k], total_prob)]
             winner_local_idx == choices(raw[position], remaining_probs) + 1
             winner_idx == remaining_indices[winner_local_idx]
         IN  allocate(probs, RemoveAt(remaining_indices, winner_local_idx),
                      position + 1, raw,
                      [positions EXCEPT ![winner_idx] = position])

softmax_positions(ad_ranks, r) ==
    LET n == Len(ad_ranks)
    IN  IF n = 0 THEN <<>>
        ELSE IF n = 1 THEN <<1>>
        ELSE IF r.none
        THEN LET sorted_indices == sorted_desc(ad_ranks, n)
             IN  [i \in 1..n |-> CHOOSE pos \in 1..n : sorted_indices[pos] = i]
        ELSE LET max_rank == MaxSeq(ad_ranks)
                 exp_ranks == [i \in 1..n |-> exp_neg(Div(max_rank - ad_ranks[i], tau))]
                 sum_exp == SumSeq(exp_ranks)
                 probs == [i \in 1..n |-> Div(exp_ranks[i], sum_exp)]
             IN  allocate(probs, [i \in 1..n |-> i], 1, r.raw, [i \in 1..n |-> 0])

\* Number of raw draws softmax_positions takes from the generator.
softmax_draws(n) == IF n >= 2 THEN n ELSE 0

\* calculate_cpc with the next rank multiplied by the denominator.
calculate_cpc_times(winner_ad_rank, winner_qs, winner_context, next_ad_rank, min_cpc, epsilon) ==
    LET denominator == Mul(winner_qs, winner_context)
    IN  IF denominator <= 0 THEN min_cpc
        ELSE Max(min_cpc, Mul(next_ad_rank, denominator) + epsilon)

\* calculate_cpc: winner_ad_rank is accepted and not used, as in the source.
calculate_cpc(winner_ad_rank, winner_qs, winner_context, next_ad_rank, min_cpc, epsilon) ==
    LET denominator == Mul(winner_qs, winner_context)
    IN  IF denominator <= 0 THEN min_cpc
        ELSE Max(min_cpc, Div(next_ad_rank, denominator) + epsilon)

\* budget_remaining: None, or a dict advertiser_id -> remaining budget.
NoBudget == [none |-> TRUE, map |-> <<>>]
Budget(map) == [none |-> FALSE, map |-> map]
Inf == 2000 * 1000 * 1000
budget_get(b, id) == IF id \in DOMAIN b.map THEN b.map[id] ELSE Inf

InSeq(x, s) == \E i \in 1..Len(s) : s[i] = x

Filter(s, Keep(_)) == SelectSeq(s, Keep)

AuctionPosition(e, position, cpc, won, reason) ==
    [advertiser_id |-> e.advertiser_id, keyword_id |-> e.keyword_id,
     ad_id |-> e.ad_id, position |-> position, ad_rank |-> ad_rank(e),
     cpc |-> cpc, won_auction |-> won, loss_reason |-> reason]

\* The rank filter of run_auction.
rank_eligible(e, min_ad_rank) == ad_rank(e) >= min_ad_rank

\* next_ad_rank taken from the next entry in rank order, not from the entry
\* allocated the next position.
next_ad_rank_in_order(shown, allocated_positions, i, min_ad_rank) ==
    IF i + 1 <= Len(shown) THEN ad_rank(shown[i + 1]) ELSE min_ad_rank

\* next_ad_rank of the entry shown[i]: the rank of the entry allocated
\* position + 1, or the threshold.
next_ad_rank_of(shown, allocated_positions, i, min_ad_rank) ==
    LET position == allocated_positions[i]
        js == {j \in 1..Len(shown) : allocated_positions[j] = position + 1}
    IN  IF js = {} THEN min_ad_rank
        ELSE ad_rank(shown[CHOOSE j \in js : \A k \in js : j <= k])

\* The eligible entries with the budget filter left out.
eligible_entries_rank_only(entries, min_ad_rank, budget_remaining) ==
    Filter(entries, LAMBDA e : rank_eligible(e, min_ad_rank))

\* Lines 189-202: the entries that pass the rank filter and, when a budget
\* map is given, the budget filter.
eligible_entries(entries, min_ad_rank, budget_remaining) ==
    Filter(entries, LAMBDA e :
        /\ rank_eligible(e, min_ad_rank)
        /\ budget_remaining.none \/ budget_get(budget_remaining, e.advertiser_id) > 0)

\* Lines 205-215: the records of the entries the budget filter removed.
budget_excluded_positions(entries, min_ad_rank, budget_remaining) ==
    LET budget_excluded ==
            IF budget_remaining.none THEN <<>>
            ELSE Filter(entries, LAMBDA e :
                     /\ rank_eligible(e, min_ad_rank)
                     /\ budget_get(budget_remaining, e.advertiser_id) <= 0)
    IN  [i \in 1..Len(budget_excluded) |->
            AuctionPosition(budget_excluded[i], 0, 0, FALSE, "budget")]

\* Lines 218-229: the records of the entries below the rank threshold.
rank_excluded_positions(entries, min_ad_rank) ==
    LET rank_excluded == Filter(entries, LAMBDA e : ad_rank(e) < min_ad_rank)
    IN  [i \in 1..Len(rank_excluded) |->
            AuctionPosition(rank_excluded[i], 0, 0, FALSE, "rank")]

\* The eligible entries sorted by ascending ad_rank.
sort_by_ad_rank_ascending(eligible) ==
    LET order == sorted_desc([i \in 1..Len(eligible) |-> 0 - ad_rank(eligible[i])],
                             Len(eligible))
    IN  [i \in 1..Len(order) |-> eligible[order[i]]]

\* Line 240: sorted(eligible, key=lambda e: -e.ad_rank)
sort_by_ad_rank(eligible) ==
    LET order == sorted_desc([i \in 1..Len(eligible) |-> ad_rank(eligible[i])],
                             Len(eligible))
    IN  [i \in 1..Len(order) |-> eligible[order[i]]]

\* Lines 251-277: the record of every shown entry, with its CPC.
shown_positions(shown, allocated_positions, min_ad_rank) ==
    [i \in 1..Len(shown) |->
        AuctionPosition(shown[i], allocated_positions[i],
            calculate_cpc(ad_rank(shown[i]), shown[i].quality_score, shown[i].context_factor,
                next_ad_rank_of(shown, allocated_positions, i, min_ad_rank),
                default_min_cpc, default_epsilon),
            TRUE, "none")]

\* Lines 280-290: the records of the eligible entries that got no slot.
not_shown_positions(not_shown) ==
    [i \in 1..Len(not_shown) |-> AuctionPosition(not_shown[i], 0, 0, FALSE, "rank")]

\* Lines 243-297, on the sorted eligible entries; max_positions >= 0, so that
\* the slices [:max_positions] and [max_positions:] cut at n_shown.
allocate_and_price(excluded, sorted_eligible, n_shown, min_ad_rank, r) ==
    [positions |->
        excluded
        \o shown_positions(SubSeq(sorted_eligible, 1, n_shown),
               softmax_positions([i \in 1..n_shown |-> ad_rank(sorted_eligible[i])], r),
               min_ad_rank)
        \o not_shown_positions(SubSeq(sorted_eligible, n_shown + 1, Len(sorted_eligible))),
     total_eligible |-> Len(sorted_eligible),
     total_shown |-> n_shown]

\* Lines 231-238: no eligible entry
auction_of(excluded, eligible, max_positions, min_ad_rank, r) ==
    IF eligible = <<>>
    THEN [positions |-> excluded, total_eligible |-> 0, total_shown |-> 0]
    ELSE allocate_and_price(excluded, sort_by_ad_rank(eligible),
                            Min(Len(eligible), max_positions), min_ad_rank, r)

run_auction(entries, max_positions, min_ad_rank, budget_remaining, r) ==
    IF entries = <<>>
    THEN [positions |-> <<>>, total_eligible |-> 0, total_shown |-> 0]
    ELSE auction_of(budget_excluded_positions(entries, min_ad_rank, budget_remaining)
                        \o rank_excluded_positions(entries, min_ad_rank),
                    eligible_entries(entries, min_ad_rank, budget_remaining),
                    max_positions, min_ad_rank, r)

\* Raw draws run_auction takes from the generator for these arguments.
run_auction_draws(entries, max_positions, min_ad_rank, budget_remaining) ==
    softmax_draws(Min(Len(eligible_entries(entries, min_ad_rank, budget_remaining)),
                      max_positions))

\* AuctionResult.get_user_position: the first record of the advertiser.
NoPosition == [advertiser_id |-> "", keyword_id |-> "", ad_id |-> "", position |-> 0,
               ad_rank |-> 0, cpc |-> 0, won_auction |-> FALSE, loss_reason |-> "absent"]
get_user_position(result, user_advertiser_id) ==
    LET is == {i \in 1..Len(result.positions) :
                   result.positions[i].advertiser_id = user_advertiser_id}
    IN  IF is = {} THEN NoPosition
        ELSE result.positions[CHOOSE i \in is : \A j \in is : i <= j]

----------------------------------------------------------------------------
(* matching.py: texts are whitespace-separated word lists *)

\* tokenize: split on whitespace and drop the empty tokens.
tokenize(text) == SelectSeq(text, LAMBDA t : t # "")

exact_match(keyword_tokens, query_tokens) == keyword_tokens = query_tokens

\* The keyword tokens found in the query in order, other tokens allowed in
\* between.
RECURSIVE phrase_match_with_gaps(_, _)
phrase_match_with_gaps(keyword_tokens, query_tokens) ==
    IF keyword_tokens = <<>> THEN FALSE
    ELSE IF query_tokens = <<>> THEN FALSE
    ELSE IF Head(keyword_tokens) = Head(query_tokens)
    THEN Len(keyword_tokens) = 1
         \/ phrase_match_with_gaps(Tail(keyword_tokens), Tail(query_tokens))
    ELSE phrase_match_with_gaps(keyword_tokens, Tail(query_tokens))

phrase_match(keyword_tokens, query_tokens) ==
    /\ keyword_tokens # <<>>
    /\ Len(keyword_tokens) <= Len(query_tokens)
    /\ \E i \in 0..(Len(query_tokens) - Len(keyword_tokens)) :
           SubSeq(query_tokens, i + 1, i + Len(keyword_tokens)) = keyword_tokens

SYNONYMS ==
    ("buy" :> {"purchase", "get", "acquire", "order"})
    @@ ("cheap" :> {"affordable", "low cost", "budget", "inexpensive"})
    @@ ("best" :> {"top", "premier", "leading", "excellent"})
    @@ ("near" :> {"nearby", "close to", "around", "local"})
    @@ ("rent" :> {"lease", "hire", "rental"})
    @@ ("apartment" :> {"flat", "unit", "condo"})
    @@ ("villa" :> {"house", "home", "property"})
    @@ ("service" :> {"services", "help", "assistance"})
    @@ ("repair" :> {"fix", "fixing", "maintenance"})
    @@ ("cleaning" :> {"clean", "cleaner", "housekeeping"})
    @@ ("ac" :> {"air conditioning", "air conditioner", "hvac"})
    @@ ("plumber" :> {"plumbing", "plumbers"})
    @@ ("electrician" :> {"electrical", "electric"})
    @@ ("dubai" :> {"dxb"})
    @@ ("abu dhabi" :> {"abudhabi", "ad"})
    @@ ("uae" :> {"emirates", "united arab emirates"})
    @@ ("price" :> {"cost", "pricing", "rate", "rates"})
    @@ ("discount" :> {"sale", "offer", "deal", "deals"})
    @@ ("shop" :> {"store", "shopping", "buy"})
    @@ ("delivery" :> {"shipping", "deliver"})
    @@ ("online" :> {"web", "internet", "digital"})

get_synonyms(word) ==
    {word}
    \cup (IF word \in DOMAIN SYNONYMS THEN SYNONYMS[word] ELSE {})
    \cup UNION {{key} \cup SYNONYMS[key] :
                   key \in {k \in DOMAIN SYNONYMS : word \in SYNONYMS[k]}}

Range(s) == {s[i] : i \in 1..Len(s)}

direct_matches(keyword_tokens, query_tokens) ==
    Cardinality({i \in 1..Len(keyword_tokens) : keyword_tokens[i] \in Range(query_tokens)})

synonym_matches(keyword_tokens, query_tokens) ==
    Cardinality({i \in 1..Len(keyword_tokens) :
        /\ keyword_tokens[i] \notin Range(query_tokens)
        /\ get_synonyms(keyword_tokens[i]) \cap Range(query_tokens) # {}})

\* compute_broad_match_score, in fixed point.
compute_broad_match_score(keyword_tokens, query_tokens) ==
    IF keyword_tokens = <<>> \/ query_tokens = <<>> THEN 0
    ELSE LET k == Len(keyword_tokens)
             q == Len(query_tokens)
             d == direct_matches(keyword_tokens, query_tokens)
             s == synonym_matches(keyword_tokens, query_tokens)
             topic_overlap == (d * FP + 8000 * s) \div k
             synonym_hit == (s * FP) \div k
             context_fit == (Min(q, k) * FP) \div Max(q, k)
         IN  Mul(6000, topic_overlap) + Mul(2500, synonym_hit) + Mul(1500, context_fit)

broad_match(keyword_tokens, query_tokens, learning_state) ==
    compute_broad_match_score(keyword_tokens, query_tokens)
        >= (IF learning_state THEN 5800 ELSE 6200)

\* Every negative treated as a broad negative, whatever its match type.
negative_blocks_all_broad(neg, query_tokens) ==
    \E i \in 1..Len(tokenize(neg.text)) :
        get_synonyms(tokenize(neg.text)[i]) \cap Range(query_tokens) # {}

\* Whether one negative keyword blocks the query.
negative_blocks(neg, query_tokens) ==
    LET neg_tokens == tokenize(neg.text)
    IN  CASE neg.match_type = "exact" -> exact_match(neg_tokens, query_tokens)
          [] neg.match_type = "phrase" -> phrase_match(neg_tokens, query_tokens)
          [] neg.match_type = "broad" ->
                 \E i \in 1..Len(neg_tokens) :
                     \/ neg_tokens[i] \in Range(query_tokens)
                     \/ get_synonyms(neg_tokens[i]) \cap Range(query_tokens) # {}
          [] OTHER -> FALSE

\* check_negative_block: the text of the first blocking negative.
check_negative_block(query_tokens, negatives) ==
    LET bs == {i \in 1..Len(negatives) : negative_blocks(negatives[i], query_tokens)}
    IN  IF bs = {} THEN [blocked |-> FALSE, blocking_negative |-> <<>>]
        ELSE [blocked |-> TRUE,
              blocking_negative |-> negatives[CHOOSE i \in bs : \A j \in bs : i <= j].text]

positive_match(keyword, query, match_type, learning_state) ==
    CASE match_type = "exact" -> exact_match(tokenize(keyword), tokenize(query))
      [] match_type = "phrase" -> phrase_match(tokenize(keyword), tokenize(query))
      [] match_type = "broad" -> broad_match(tokenize(keyword), tokenize(query), learning_state)
      [] OTHER -> FALSE

match_keyword(keyword, query, match_type, negatives, learning_state) ==
    IF ~positive_match(keyword, query, match_type, learning_state)
    THEN [matched |-> FALSE, blocked_by_negative |-> FALSE, blocking_negative |-> <<>>]
    ELSE LET chk == check_negative_block(tokenize(query), negatives)
         IN  IF negatives # <<>> /\ chk.blocked
             THEN [matched |-> FALSE, blocked_by_negative |-> TRUE,
                   blocking_negative |-> chk.blocking_negative]
             ELSE [matched |-> TRUE, blocked_by_negative |-> FALSE,
                   blocking_negative |-> <<>>]

----------------------------------------------------------------------------
(* state.py *)

None == 0 - 1

\* dict.get(key, default) on a dict modelled as a function
dict_get(d, k, default) == IF k \in DOMAIN d THEN d[k] ELSE default

EmptyDict == [x \in {} |-> 0]

IntentLevel == <<"high", "medium", "low">>
DeviceType == <<"mobile", "desktop">>
TimeBucket == <<"morning", "afternoon", "evening", "night">>
Geo == <<"primary", "secondary">>

\* generate_segments: the Cartesian product, intent outermost, geo innermost.
generate_segments ==
    [i \in 1..(Len(IntentLevel) * Len(DeviceType) * Len(TimeBucket) * Len(Geo)) |->
        [intent |-> IntentLevel[((i - 1) \div (Len(DeviceType) * Len(TimeBucket) * Len(Geo))) + 1],
         device |-> DeviceType[(((i - 1) \div (Len(TimeBucket) * Len(Geo))) % Len(DeviceType)) + 1],
         time_bucket |-> TimeBucket[(((i - 1) \div Len(Geo)) % Len(TimeBucket)) + 1],
         geo |-> Geo[((i - 1) % Len(Geo)) + 1]]]

NSegments == Len(generate_segments)

\* The first advertiser of the state, user or not, or 0.
get_user_advertiser_first(state) == IF state.advertisers = <<>> THEN 0 ELSE 1

\* SimState.get_user_advertiser: index of the first advertiser with is_user, or 0.
get_user_advertiser(state) ==
    LET us == {i \in 1..Len(state.advertisers) : state.advertisers[i].is_user}
    IN  IF us = {} THEN 0 ELSE CHOOSE i \in us : \A j \in us : i <= j

\* SimState.get_fatigue for the user advertiser and a segment.
get_fatigue(state, seg) == state.fatigue_state[seg]

fatigue_scale == 1200
fatigue_decay == 9200

\* SimState.update_fatigue with its default scale and decay.
update_fatigue(state, seg, impressions) ==
    LET current == state.fatigue_state[seg]
        added == (impressions * FP) \div fatigue_scale
        new_fatigue == Mul(current + added, fatigue_decay)
    IN  [state EXCEPT !.fatigue_state[seg] = Min(new_fatigue, FP)]

\* CausalLog.add_driver
add_driver(drivers, name, weight) ==
    [k \in DOMAIN drivers \cup {name} |->
        IF k = name THEN dict_get(drivers, name, 0) + weight ELSE drivers[k]]

RECURSIVE SumSet(_, _)
SumSet(f, S) == IF S = {} THEN 0
                ELSE LET x == CHOOSE x \in S : TRUE IN f[x] + SumSet(f, S \ {x})

\* The drivers as they were added, not divided by their total.
normalize_skipped(drivers) == drivers

\* CausalLog.normalize
normalize(drivers) ==
    LET total == SumSet(drivers, DOMAIN drivers)
    IN  IF total > 0 THEN [k \in DOMAIN drivers |-> Div(drivers[k], total)] ELSE drivers

\* DayMetrics(day=day)
DayMetrics(d) ==
    [day |-> d, impressions |-> 0, clicks |-> 0, conversions |-> 0, cost |-> 0,
     revenue |-> 0, avg_position |-> 0, avg_quality_score |-> 0,
     impression_share |-> 0, lost_is_budget |-> 0, lost_is_rank |-> 0,
     fraud_clicks |-> 0, tracking_lost_conversions |-> 0, causal_log |-> EmptyDict]

----------------------------------------------------------------------------
(* clicks.py *)

\* get_position_multiplier with DEFAULT_POSITION_MULTIPLIERS
get_position_multiplier(position) ==
    IF position <= 0 THEN 0
    ELSE IF position > 8 THEN 1000
    ELSE <<10000, 8500, 7000, 5500, 4000, 3000, 2200, 1500>>[position]

Clamp01(x) == Max(0, Min(FP, x))

\* compute_ctr with noise_variance = 0.1 and the raw draw u of rng.noise
compute_ctr(base_ctr, position, ad_strength, relevance, fatigue, u) ==
    LET pos_mult == get_position_multiplier(position)
        ad_mult == 6000 + Mul(4000, ad_strength)
        rel_mult == 7000 + Mul(6000, relevance)
        fatigue_mult == FP - Mul(5000, fatigue)
        noise_mult == noise(u, FP, 1000)
    IN  Clamp01(Mul(Mul(Mul(Mul(Mul(base_ctr, pos_mult), ad_mult), rel_mult),
                        fatigue_mult), noise_mult))

\* compute_cvr with offer_mult = trust_mult = 1, quality_penalty = 0
compute_cvr(base_cvr, landing_mult, u) ==
    Clamp01(Mul(Mul(base_cvr, landing_mult), noise(u, FP, 1000)))

\* simulate_click with a generator: the second draw is made only after a click
simulate_click(ctr, fraud_rate, u1, u2) ==
    LET clicked == bernoulli(u1, ctr)
    IN  [clicked |-> clicked,
         is_fraud |-> clicked /\ bernoulli(u2, fraud_rate),
         draws |-> IF clicked THEN 2 ELSE 1]

delay_probs == <<5000, 2500, 1200, 700, 300, 200, 100>>

\* simulate_conversion with a generator and max_delay_days = 7
simulate_conversion(cvr, tracking_loss_rate, u1, u2, u3) ==
    LET converted == bernoulli(u1, cvr)
        total == SumSeq(delay_probs)
        probs == [i \in 1..Len(delay_probs) |-> Div(delay_probs[i], total)]
    IN  [converted |-> converted,
         is_tracked |-> IF converted THEN ~bernoulli(u2, tracking_loss_rate) ELSE TRUE,
         delay_days |-> IF converted THEN choices(u3, probs) ELSE 0,
         draws |-> IF converted THEN 3 ELSE 1]

----------------------------------------------------------------------------
(* engine.py *)

get_seasonality_multiplier(d, scenario_config) ==
    LET seasonality == dict_get(scenario_config, "seasonality", EmptyDict)
        monthly_factors == dict_get(seasonality, "monthly_factors", [i \in 1..12 |-> FP])
        dow_factors == dict_get(seasonality, "day_of_week_factors", [i \in 1..7 |-> FP])
        month == ((d - 1) \div 30) % 12
        dow == (d - 1) % 7
        monthly_mult == IF month < Len(monthly_factors) THEN monthly_factors[month + 1] ELSE FP
        dow_mult == IF dow < Len(dow_factors) THEN dow_factors[dow + 1] ELSE FP
    IN  Mul(monthly_mult, dow_mult)

get_event_multiplier(d, scenario_config) ==
    LET event_shocks == dict_get(scenario_config, "event_shocks", <<>>)
        hits == {i \in 1..Len(event_shocks) :
                    event_shocks[i].day_range[1] <= d /\ d <= event_shocks[i].day_range[2]}
    IN  IF hits = {} THEN FP
        ELSE event_shocks[CHOOSE i \in hits : \A j \in hits : i <= j].demand_mult

\* segment_demand of generate_daily_queries
segment_demand(segment, demand_config, seasonality_mult, event_mult) ==
    LET daily_baseline == dict_get(demand_config, "daily_baseline", 1000)
        intent_share == dict_get(dict_get(demand_config, "intent_split", EmptyDict),
                                 segment.intent, 3300)
        device_share == dict_get(dict_get(demand_config, "device_split", EmptyDict),
                                 segment.device, 5000)
        geo_share == dict_get(dict_get(demand_config, "geo_split", EmptyDict),
                              segment.geo, 5000)
        time_share == dict_get(dict_get(demand_config, "time_split", EmptyDict),
                               segment.time_bucket, 2500)
    IN  Mul(Mul(Mul(Mul(Mul(daily_baseline * intent_share, device_share), geo_share),
                    time_share), seasonality_mult), event_mult) \div FP

\* The text of one generated query: f"query_{rng.randint(1, 10000)}"
query_text(u) == <<"query_" \o ToString(randint(u, 1, 10000))>>

\* generate_daily_queries: one randint per query
generate_daily_queries(segment, demand_config, seasonality_mult, event_mult, raw) ==
    [i \in 1..segment_demand(segment, demand_config, seasonality_mult, event_mult) |->
        query_text(raw[i])]

\* The negatives of an ad group, in keyword order.
negatives_of(ad_group) ==
    LET negs == SelectSeq(ad_group.keywords, LAMBDA k : k.is_negative)
    IN  [i \in 1..Len(negs) |-> [text |-> negs[i].text, match_type |-> negs[i].match_type]]

\* The keyword filter with the status test left out.
keyword_candidate_any_status(keyword) == ~keyword.is_negative

\* Whether a keyword of the ad group is tried against the query.
keyword_candidate(keyword) == keyword.status = "active" /\ ~keyword.is_negative

\* Python's "keyword.bid_override or ad_group.default_bid"
bid_of(keyword, ad_group) ==
    IF keyword.bid_override = None \/ keyword.bid_override = 0
    THEN ad_group.default_bid ELSE keyword.bid_override

\* The campaign check without the budget check.
campaign_open_any_budget(campaign) == campaign.status = "active"

\* The budget check of a campaign before its ad groups are searched.
campaign_open(campaign) ==
    campaign.status = "active" /\ campaign.budget - campaign.daily_spend > 0

\* The entries one ad group contributes for a query: at most one.
ad_group_entries(adv, ad_group, query) ==
    LET kws == ad_group.keywords
        hits == {i \in 1..Len(kws) :
                    /\ keyword_candidate(kws[i])
                    /\ match_keyword(kws[i].text, query, kws[i].match_type,
                                     negatives_of(ad_group), TRUE).matched}
        ads == {i \in 1..Len(ad_group.ads) : ad_group.ads[i].status = "active"}
    IN  IF ad_group.status # "active" \/ hits = {} \/ ads = {} THEN <<>>
        ELSE LET keyword == kws[CHOOSE i \in hits : \A j \in hits : i <= j]
                 ad == ad_group.ads[CHOOSE i \in ads : \A j \in ads : i <= j]
                 bid == bid_of(keyword, ad_group)
             IN  <<[advertiser_id |-> adv.id, keyword_id |-> keyword.id, ad_id |-> ad.id,
                    bid |-> IF adv.is_user THEN bid ELSE Mul(bid, adv.bid_multiplier),
                    quality_score |-> IF adv.is_user THEN keyword.quality_score
                                      ELSE adv.base_quality_score,
                    context_factor |-> FP, format_factor |-> FP]>>

RECURSIVE Flatten(_)
Flatten(ss) == IF ss = <<>> THEN <<>> ELSE Head(ss) \o Flatten(Tail(ss))

FlatMap(s, F(_)) == Flatten([i \in 1..Len(s) |-> F(s[i])])

campaign_entries(adv, campaign, query) ==
    IF ~campaign_open(campaign) THEN <<>>
    ELSE FlatMap(campaign.ad_groups, LAMBDA ag : ad_group_entries(adv, ag, query))

\* The entries list simulate_day builds for one query.
build_entries(state, query) ==
    FlatMap(state.advertisers, LAMBDA adv :
        FlatMap(adv.campaigns, LAMBDA c : campaign_entries(adv, c, query)))

\* The budget_remaining dict of simulate_day: per advertiser id, the
\* remaining budget of the last campaign written under that id.
budget_remaining_of(state) ==
    LET advs == state.advertisers
        ids == {advs[i].id : i \in {j \in 1..Len(advs) : advs[j].campaigns # <<>>}}
        last(id) == LET is == {i \in 1..Len(advs) : advs[i].id = id /\ advs[i].campaigns # <<>>}
                        a == advs[CHOOSE i \in is : \A j \in is : i >= j]
                        c == a.campaigns[Len(a.campaigns)]
                    IN  c.budget - c.daily_spend
    IN  Budget([id \in ids |-> last(id)])

\* "for campaign in user_adv.campaigns: campaign.daily_spend += cost"
debit(state, user, cost) ==
    [state EXCEPT !.advertisers[user].campaigns =
        [i \in 1..Len(@) |-> [@[i] EXCEPT !.daily_spend = @ + cost]]]

\* "Reset daily budgets"
reset_daily_spend(state) ==
    [state EXCEPT !.advertisers =
        [a \in 1..Len(@) |->
            [@[a] EXCEPT !.campaigns =
                [c \in 1..Len(@) |-> [@[c] EXCEPT !.daily_spend = 0]]]]]

----------------------------------------------------------------------------
(* Object references.  The caller's SimState is the object "arg";         *)
(* simulate_run copies it into "run"; every simulate_day copies its input  *)
(* into a fresh day object.                                                *)

Refs == {"arg", "run", "dayA", "dayB"}

fresh_ref(ref) == IF ref = "dayA" THEN "dayB" ELSE "dayA"

\* No copy: the reference of the source object itself.
deepcopy_alias(src, fresh) == src

\* copy.deepcopy(src): the reference of the new object, allocated at fresh.
deepcopy(src, fresh) == fresh

\* The heap after "dst = copy.deepcopy(src)".
copied(h, src, fresh) == [h EXCEPT ![deepcopy(src, fresh)] = h[src]]

----------------------------------------------------------------------------
(* Drawing from the generator in use *)

tracked == rng.seed # NoSeed

\* The values the next k draws of the generator may return.
RawDraws(k) ==
    {d \in [1..k -> RandVals] :
        tracked => \A i \in 1..k :
            rng.pos + i <= Len(tape[rng.seed]) => d[i] = tape[rng.seed][rng.pos + i]}

\* The generator and the tape after the first c values of d were drawn.
Consume(d, c) ==
    /\ rng' = IF tracked THEN [rng EXCEPT !.pos = @ + c] ELSE rng
    /\ tape' = IF tracked /\ rng.pos + c > Len(tape[rng.seed])
               THEN [tape EXCEPT ![rng.seed] =
                        @ \o SubSeq(d, Len(@) - rng.pos + 1, c)]
               ELSE tape

----------------------------------------------------------------------------
(* simulate_day *)

IdleDay ==
    [pc |-> "none", state |-> "arg", new_state |-> "arg", day |-> 0, user |-> 0,
     seg |-> 0, queries |-> <<>>, query |-> <<>>, query_no |-> 0, fatigue |-> 0,
     segment_impressions |-> 0,
     total_impressions |-> 0, total_clicks |-> 0, total_conversions |-> 0,
     total_cost |-> 0, total_revenue |-> 0, total_position_sum |-> 0,
     total_qs_sum |-> 0, eligible_auctions |-> 0, won_auctions |-> 0,
     lost_budget |-> 0, lost_rank |-> 0, fraud_clicks |-> 0, tracking_lost |-> 0,
     entries |-> <<>>, positions |-> <<>>, user_pos |-> NoPosition, user_qs |-> 0,
     metrics |-> DayMetrics(0)]

\* The frame of simulate_day(state, [], d, rng) on entry.
EnterDay(state_ref, d) == [IdleDay EXCEPT !.pc = "begin", !.state = state_ref, !.day = d]

config_of(d) == heap[d.new_state].scenario_config
demand_config_of(d) == dict_get(config_of(d), "demand_config", EmptyDict)
ctr_cvr_config_of(d) == dict_get(config_of(d), "ctr_cvr_config", EmptyDict)
fraud_rate_of(d) == dict_get(config_of(d), "fraud_rate", 0)
tracking_loss_rate_of(d) == dict_get(config_of(d), "tracking_loss_rate", 0)

demand_of(state, d, seg) ==
    segment_demand(generate_segments[seg],
                   dict_get(state.scenario_config, "demand_config", EmptyDict),
                   get_seasonality_multiplier(d, state.scenario_config),
                   get_event_multiplier(d, state.scenario_config))

\* The segment loop over segments that generate no query: no draw is made,
\* and update_fatigue runs with 0 impressions.
RECURSIVE skip_empty(_, _, _)
skip_empty(state, d, seg) ==
    IF seg > NSegments \/ demand_of(state, d, seg) > 0
    THEN [state |-> state, seg |-> seg]
    ELSE skip_empty(update_fatigue(state, seg, 0), d, seg + 1)

\* Lines 157-203: copy the state, stamp the day, find the user advertiser,
\* reset the daily spend.
DayBegin ==
    /\ day.pc = "begin"
    /\ LET new_ref == deepcopy(day.state, fresh_ref(day.state))
           h1 == copied(heap, day.state, fresh_ref(day.state))
           s1 == [h1[new_ref] EXCEPT !.current_day = day.day]
           user == get_user_advertiser(s1)
       IN  IF user = 0
           THEN /\ heap' = [h1 EXCEPT ![new_ref] = s1]
                /\ day' = [day EXCEPT !.pc = "return", !.new_state = new_ref,
                                      !.metrics = DayMetrics(day.day)]
           ELSE LET nxt == skip_empty(reset_daily_spend(s1), day.day, 1)
                IN  /\ heap' = [h1 EXCEPT ![new_ref] = nxt.state]
                    /\ day' = [day EXCEPT !.pc = IF nxt.seg > NSegments
                                                 THEN "finish" ELSE "segment",
                                          !.new_state = new_ref, !.user = user,
                                          !.seg = nxt.seg]
    /\ UNCHANGED <<tape, rng, script, call, run, results, auction_call, cpc_call, unit_call, task_layer>>

\* Lines 205-214: the queries of the segment, its fatigue.
GenerateQueries ==
    /\ day.pc = "segment"
    /\ LET state == heap[day.new_state]
           n == demand_of(state, day.day, day.seg)
       IN  \E d \in RawDraws(n) :
               /\ Consume(d, n)
               /\ day' = [day EXCEPT
                     !.pc = "query",
                     !.queries = generate_daily_queries(generate_segments[day.seg],
                                     demand_config_of(day),
                                     get_seasonality_multiplier(day.day, config_of(day)),
                                     get_event_multiplier(day.day, config_of(day)), d),
                     !.fatigue = get_fatigue(state, day.seg),
                     !.segment_impressions = 0]
    /\ UNCHANGED <<heap, script, call, run, results, auction_call, cpc_call, unit_call, task_layer>>

\* The counters after an auction with "elif user_pos:" written "if user_pos:",
\* so that the loss branch also runs after a win.
on_auction_if(d, entries, user_id, user_pos) ==
    LET user_entry == \E i \in 1..Len(entries) : entries[i].advertiser_id = user_id
        d1 == IF user_entry THEN [d EXCEPT !.eligible_auctions = @ + 1] ELSE d
        present == user_pos.loss_reason # "absent"
        d2 == IF present /\ user_pos.won_auction
              THEN [d1 EXCEPT !.won_auctions = @ + 1] ELSE d1
    IN  IF present
        THEN IF user_pos.loss_reason = "budget"
             THEN [d2 EXCEPT !.lost_budget = @ + 1]
             ELSE [d2 EXCEPT !.lost_rank = @ + 1]
        ELSE d2

\* Lines 284-290, 305-308 and 365-369: the counters after the auction of
\* one query; user_pos is the record get_user_position returned.
on_auction(d, entries, user_id, user_pos) ==
    LET user_entry == \E i \in 1..Len(entries) : entries[i].advertiser_id = user_id
        d1 == IF user_entry THEN [d EXCEPT !.eligible_auctions = @ + 1] ELSE d
        present == user_pos.loss_reason # "absent"
    IN  IF present /\ user_pos.won_auction
        THEN [d1 EXCEPT !.won_auctions = @ + 1]
        ELSE IF present
        THEN IF user_pos.loss_reason = "budget"
             THEN [d1 EXCEPT !.lost_budget = @ + 1]
             ELSE [d1 EXCEPT !.lost_rank = @ + 1]
        ELSE d1

\* Lines 216-282: the entries of the next query; a query without entries
\* is skipped.
MatchQuery ==
    /\ day.pc = "query"
    /\ day.queries # <<>>
    /\ LET entries == build_entries(heap[day.new_state], Head(day.queries))
           d0 == [day EXCEPT !.query = Head(day.queries), !.query_no = @ + 1,
                             !.entries = entries,
                             !.positions = <<>>, !.user_pos = NoPosition]
       IN  day' = IF entries = <<>>
                  THEN [d0 EXCEPT !.queries = Tail(@)]
                  ELSE [d0 EXCEPT !.pc = "auction"]
    /\ UNCHANGED <<heap, tape, rng, script, call, run, results, auction_call, cpc_call, unit_call, task_layer>>

\* Lines 305-308 and 365-369: the frame after the user's result was read.
after_auction(d, user_id, positions, user_pos) ==
    LET d1 == on_auction([d EXCEPT !.positions = positions, !.user_pos = user_pos],
                         d.entries, user_id, user_pos)
        user_entries == SelectSeq(d.entries, LAMBDA e : e.advertiser_id = user_id)
    IN  IF user_pos.won_auction
        THEN [d1 EXCEPT !.pc = "click",
                        !.user_qs = IF user_entries # <<>>
                                    THEN user_entries[1].quality_score ELSE 5000]
        ELSE [d1 EXCEPT !.pc = "query", !.queries = Tail(@)]

auction_step(d, user_id, auction_result) ==
    after_auction(d, user_id, auction_result.positions,
                  get_user_position(auction_result, user_id))

\* Lines 284-308, 365-369: the auction of the query and the user's result.
Auction ==
    /\ day.pc = "auction"
    /\ \E n \in {run_auction_draws(day.entries, default_max_positions, default_min_ad_rank,
                                   budget_remaining_of(heap[day.new_state]))} :
         \E d \in RawDraws(n) :
           /\ Consume(d, n)
           /\ day' = auction_step(day, heap[day.new_state].advertisers[day.user].id,
                         run_auction(day.entries, default_max_positions,
                                     default_min_ad_rank,
                                     budget_remaining_of(heap[day.new_state]),
                                     WithRng(d)))
    /\ UNCHANGED <<heap, script, call, run, results, auction_call, cpc_call, unit_call, task_layer>>

\* Lines 326-329
on_impression(d) ==
    [d EXCEPT !.total_impressions = @ + 1, !.segment_impressions = @ + 1,
              !.total_position_sum = @ + d.user_pos.position,
              !.total_qs_sum = @ + d.user_qs]

\* The click counters with a fraud click counted as fraud only.
on_click_fraud_apart(d, cost, is_fraud) ==
    [d EXCEPT !.total_clicks = IF is_fraud THEN @ ELSE @ + 1,
              !.total_cost = @ + cost,
              !.fraud_clicks = IF is_fraud THEN @ + 1 ELSE @]

\* Lines 331-341, the counters
on_click(d, cost, is_fraud) ==
    [d EXCEPT !.total_clicks = @ + 1, !.total_cost = @ + cost,
              !.fraud_clicks = IF is_fraud THEN @ + 1 ELSE @]

\* The conversion counters with an untracked conversion counted as a
\* conversion as well.
on_conversion_untracked_counted(d, conv_result) ==
    IF ~conv_result.converted THEN d
    ELSE IF conv_result.is_tracked
    THEN [d EXCEPT !.total_conversions = @ + 1, !.total_revenue = @ + 100 * FP]
    ELSE [d EXCEPT !.total_conversions = @ + 1, !.tracking_lost = @ + 1]

\* Lines 358-363
on_conversion(d, conv_result) ==
    IF ~conv_result.converted THEN d
    ELSE IF conv_result.is_tracked
    THEN [d EXCEPT !.total_conversions = @ + 1, !.total_revenue = @ + 100 * FP]
    ELSE [d EXCEPT !.tracking_lost = @ + 1]

\* Lines 310-341: the click on the impression the user won.
Click ==
    /\ day.pc = "click"
    /\ \E d \in RawDraws(3) :
        LET segment == generate_segments[day.seg]
            base_ctr == dict_get(dict_get(ctr_cvr_config_of(day), "base_ctr_by_intent",
                                          EmptyDict), segment.intent, 300)
            ctr == compute_ctr(base_ctr, day.user_pos.position, 6000, 7000,
                               day.fatigue, d[1])
            click_result == simulate_click(ctr, fraud_rate_of(day), d[2], d[3])
            d1 == on_impression(day)
        IN  /\ Consume(d, 1 + click_result.draws)
            /\ IF click_result.clicked
               THEN /\ heap' = [heap EXCEPT ![day.new_state] =
                                   debit(@, day.user, day.user_pos.cpc)]
                    /\ day' = LET d2 == on_click(d1, day.user_pos.cpc,
                                                 click_result.is_fraud)
                              IN  IF click_result.is_fraud
                                  THEN [d2 EXCEPT !.pc = "query", !.queries = Tail(@)]
                                  ELSE [d2 EXCEPT !.pc = "conversion"]
               ELSE /\ heap' = heap
                    /\ day' = [d1 EXCEPT !.pc = "query", !.queries = Tail(@)]
    /\ UNCHANGED <<script, call, run, results, auction_call, cpc_call, unit_call, task_layer>>

\* Lines 343-363: the conversion of a click that is no fraud.
Conversion ==
    /\ day.pc = "conversion"
    /\ \E d \in RawDraws(4) :
        LET segment == generate_segments[day.seg]
            base_cvr == dict_get(dict_get(ctr_cvr_config_of(day), "base_cvr_by_intent",
                                          EmptyDict), segment.intent, 500)
            cvr == compute_cvr(base_cvr, FP, d[1])
            conv_result == simulate_conversion(cvr, tracking_loss_rate_of(day),
                                               d[2], d[3], d[4])
        IN  /\ Consume(d, 1 + conv_result.draws)
            /\ day' = [on_conversion(day, conv_result) EXCEPT
                          !.pc = "query", !.queries = Tail(@)]
    /\ UNCHANGED <<heap, script, call, run, results, auction_call, cpc_call, unit_call, task_layer>>

\* Lines 371-372, and the segments after this one that generate no query.
EndSegment ==
    /\ day.pc = "query"
    /\ day.queries = <<>>
    /\ LET s1 == update_fatigue(heap[day.new_state], day.seg, day.segment_impressions)
           nxt == skip_empty(s1, day.day, day.seg + 1)
       IN  /\ heap' = [heap EXCEPT ![day.new_state] = nxt.state]
           /\ day' = [day EXCEPT !.pc = IF nxt.seg > NSegments THEN "finish" ELSE "segment",
                                 !.seg = nxt.seg]
    /\ UNCHANGED <<tape, rng, script, call, run, results, auction_call, cpc_call, unit_call, task_layer>>

\* Lines 390-399
build_causal_log(d) ==
    LET l1 == IF d.lost_budget > d.lost_rank
              THEN add_driver(EmptyDict, "budget_limited", 4000) ELSE EmptyDict
        l2 == IF d.lost_rank > d.lost_budget THEN add_driver(l1, "rank_loss", 3000) ELSE l1
        l3 == IF d.fraud_clicks > 0 THEN add_driver(l2, "fraud", 1000) ELSE l2
        l4 == IF d.tracking_lost > 0 THEN add_driver(l3, "tracking_loss", 1000) ELSE l3
    IN  normalize(l4)

\* Lines 374-401
populate_metrics(d) ==
    [day |-> d.day,
     impressions |-> d.total_impressions,
     clicks |-> d.total_clicks,
     conversions |-> d.total_conversions,
     cost |-> d.total_cost,
     revenue |-> d.total_revenue,
     avg_position |-> IF d.total_impressions > 0
                      THEN (d.total_position_sum * FP) \div d.total_impressions ELSE 0,
     avg_quality_score |-> IF d.total_impressions > 0
                           THEN d.total_qs_sum \div d.total_impressions ELSE 0,
     impression_share |-> IF d.eligible_auctions > 0
                          THEN (d.won_auctions * FP) \div d.eligible_auctions ELSE 0,
     lost_is_budget |-> IF d.eligible_auctions > 0
                        THEN (d.lost_budget * FP) \div d.eligible_auctions ELSE 0,
     lost_is_rank |-> IF d.eligible_auctions > 0
                      THEN (d.lost_rank * FP) \div d.eligible_auctions ELSE 0,
     fraud_clicks |-> d.fraud_clicks,
     tracking_lost_conversions |-> d.tracking_lost,
     causal_log |-> build_causal_log(d)]

FinishDay ==
    /\ day.pc = "finish"
    /\ day' = [day EXCEPT !.pc = "return", !.metrics = populate_metrics(day)]
    /\ UNCHANGED <<heap, tape, rng, script, call, run, results, auction_call, cpc_call, unit_call, task_layer>>

----------------------------------------------------------------------------
(* simulate_run and the calls made on the engine *)

IdleCall == [kind |-> "idle", name |-> "", seed |-> 0, n_days |-> 0, seeded |-> FALSE]
IdleRun == [state |-> "arg", day |-> 0, daily_metrics |-> <<>>]
NoGenerator == [seed |-> NoSeed, pos |-> 0]

\* simulate_run(initial_state, {}, seed, n_days), lines 424-428
CallSimulateRun ==
    /\ call.kind = "idle"
    /\ script # <<>>
    /\ Head(script).kind = "simulate_run"
    /\ call' = Head(script)
    /\ script' = Tail(script)
    /\ heap' = copied(heap, "arg", "run")
    /\ run' = [state |-> deepcopy("arg", "run"), day |-> 1, daily_metrics |-> <<>>]
    /\ UNCHANGED <<tape, rng, day, results, auction_call, cpc_call, unit_call, task_layer>>

\* Lines 430-439: the generator of the day, the call of simulate_day
RunDay ==
    /\ call.kind = "simulate_run"
    /\ day.pc = "none"
    /\ run.day <= call.n_days
    /\ rng' = create_day_rng(call.seed, run.day)
    /\ day' = EnterDay(run.state, run.day)
    /\ UNCHANGED <<heap, tape, script, call, run, results, auction_call, cpc_call, unit_call, task_layer>>

\* Lines 437-442: simulate_day returned to the loop of simulate_run
DayReturnToRun ==
    /\ call.kind = "simulate_run"
    /\ day.pc = "return"
    /\ run' = [state |-> day.new_state, day |-> run.day + 1,
               daily_metrics |-> Append(run.daily_metrics, day.metrics)]
    /\ day' = IdleDay
    /\ rng' = NoGenerator
    /\ UNCHANGED <<heap, tape, script, call, results, auction_call, cpc_call, unit_call, task_layer>>

\* Lines 444-452: the RunResult
RunReturn ==
    /\ call.kind = "simulate_run"
    /\ day.pc = "none"
    /\ run.day > call.n_days
    /\ results' = [results EXCEPT ![call.name] =
                       [done |-> TRUE, seed |-> call.seed, n_days |-> call.n_days,
                        daily_metrics |-> run.daily_metrics]]
    /\ call' = IdleCall
    /\ run' = IdleRun
    /\ UNCHANGED <<heap, tape, rng, script, day, auction_call, cpc_call, unit_call, task_layer>>

\* simulate_day(state, [], day, rng) called on its own, with the generator
\* create_day_rng(seed, day) or with a generator of unknown seed
CallSimulateDay ==
    /\ call.kind = "idle"
    /\ script # <<>>
    /\ Head(script).kind = "simulate_day"
    /\ call' = Head(script)
    /\ script' = Tail(script)
    /\ rng' = IF Head(script).seeded
              THEN create_day_rng(Head(script).seed, Head(script).n_days)
              ELSE NoGenerator
    /\ day' = EnterDay("arg", Head(script).n_days)
    /\ UNCHANGED <<heap, tape, run, results, auction_call, cpc_call, unit_call, task_layer>>

\* simulate_day returned to that caller
DayReturn ==
    /\ call.kind = "simulate_day"
    /\ day.pc = "return"
    /\ results' = [results EXCEPT ![call.name] =
                       [done |-> TRUE, seed |-> call.seed, n_days |-> call.n_days,
                        daily_metrics |-> <<day.metrics>>]]
    /\ call' = IdleCall
    /\ day' = IdleDay
    /\ rng' = NoGenerator
    /\ UNCHANGED <<heap, tape, script, run, auction_call, cpc_call, unit_call, task_layer>>

----------------------------------------------------------------------------
(* The states the engine is run on, built as tests/test_integration.py    *)
(* builds its state                                                        *)

Keyword(id, text, match_type, bid_override, is_negative, quality_score) ==
    [id |-> id, text |-> text, match_type |-> match_type, bid_override |-> bid_override,
     status |-> "active", is_negative |-> is_negative, quality_score |-> quality_score,
     ctr_ema |-> 0]

Ad(id) == [id |-> id, status |-> "active"]

AdGroup(id, default_bid, keywords) ==
    [id |-> id, status |-> "active", default_bid |-> default_bid,
     keywords |-> keywords, ads |-> <<Ad(id \o "_ad")>>]

Campaign(id, budget, daily_spend, ad_groups) ==
    [id |-> id, status |-> "active", budget |-> budget, daily_spend |-> daily_spend,
     ad_groups |-> ad_groups]

Advertiser(id, is_user, bid_multiplier, base_quality_score, campaigns) ==
    [id |-> id, is_user |-> is_user, bid_multiplier |-> bid_multiplier,
     base_quality_score |-> base_quality_score, campaigns |-> campaigns]

\* Demand falls on the segments high/mobile/morning of the two geos.
demand_config(daily_baseline, secondary_share) ==
    [daily_baseline |-> daily_baseline,
     intent_split |-> [high |-> FP, medium |-> 0, low |-> 0],
     device_split |-> [mobile |-> FP, desktop |-> 0],
     geo_split |-> [primary |-> FP - secondary_share, secondary |-> secondary_share],
     time_split |-> [morning |-> FP, afternoon |-> 0, evening |-> 0, night |-> 0]]

scenario_config(daily_baseline, secondary_share, fraud_rate, tracking_loss_rate) ==
    [demand_config |-> demand_config(daily_baseline, secondary_share),
     ctr_cvr_config |-> [base_ctr_by_intent |-> [high |-> 9500, medium |-> 500, low |-> 200],
                         base_cvr_by_intent |-> [high |-> 5000, medium |-> 500, low |-> 200]],
     fraud_rate |-> fraud_rate,
     tracking_loss_rate |-> tracking_loss_rate]

SimState(advertisers, config, fatigue) ==
    [advertisers |-> advertisers, scenario_config |-> config, current_day |-> 0,
     fatigue_state |-> [seg \in 1..NSegments |-> fatigue]]

\* The two query texts the draws of RandVals generate
QueryA == query_text(4500)
QueryB == query_text(9999)

\* The user advertiser: one campaign per budget, each with one ad group
\* holding an exact keyword on QueryA.
UserCampaign(i, budget, quality_score) ==
    Campaign("u_c" \o ToString(i), budget, 0,
             <<AdGroup("u_g" \o ToString(i), 2 * FP,
                       <<Keyword("u_k" \o ToString(i), QueryA, "exact", None, FALSE,
                                 quality_score)>>)>>)

User(budgets, quality_score) ==
    Advertiser("u", TRUE, FP, 6000,
               [i \in 1..Len(budgets) |-> UserCampaign(i, budgets[i], quality_score)])

Competitor ==
    Advertiser("comp", FALSE, 12000, 6000,
               <<Campaign("c_c1", 1000 * FP, 0,
                          <<AdGroup("c_g1", 25000,
                                    <<Keyword("c_k1", QueryA, "exact", None, FALSE, 5000)>>)>>)>>)

NullState == SimState(<<>>, EmptyDict, 0)

NoAuctionCall == [called |-> FALSE]
NoCpcCall == [called |-> FALSE]
NoUnitCall == [kind |-> "none", called |-> FALSE]

\* No run in the database, no task queued, no worker.
NoTaskLayer == [called |-> FALSE]

Names == {"A", "B", "D"}

\* What a call that has not returned has returned.
NoReturn == [done |-> FALSE, seed |-> 0, n_days |-> 0, daily_metrics |-> <<>>]

----------------------------------------------------------------------------
(* Specification Spec: two runs of simulate_run on the same state and     *)
(* seed, then one simulate_day on its own with the generator of its day.  *)

Seeds == {0, 1}
MaxDays == 2

TapeSeeds == {day_seed(sd, d) : sd \in Seeds, d \in 1..MaxDays}

RunStates ==
    {SimState(<<User(<<budget>>, 7000)>>, scenario_config(1, 0, 5000, 5000), fatigue) :
        budget \in {1500, 1000 * FP}, fatigue \in {0, FP}}

RunScript(seed, n, m) ==
    <<[kind |-> "simulate_run", name |-> "A", seed |-> seed, n_days |-> n, seeded |-> TRUE],
      [kind |-> "simulate_run", name |-> "B", seed |-> seed, n_days |-> m, seeded |-> TRUE],
      [kind |-> "simulate_day", name |-> "D", seed |-> seed, n_days |-> n, seeded |-> TRUE]>>

Init ==
    /\ \E s \in RunStates : heap = [r \in Refs |-> IF r = "arg" THEN s ELSE NullState]
    /\ tape = [k \in TapeSeeds |-> <<>>]
    /\ rng = NoGenerator
    /\ \E seed \in Seeds, n \in 1..MaxDays : \E m \in n..MaxDays :
           script = RunScript(seed, n, m)
    /\ call = IdleCall
    /\ run = IdleRun
    /\ day = IdleDay
    /\ results = [n \in Names |-> NoReturn]
    /\ auction_call = NoAuctionCall
    /\ cpc_call = NoCpcCall
    /\ unit_call = NoUnitCall
    /\ task_layer = NoTaskLayer

Next ==
    \/ CallSimulateRun
    \/ RunDay
    \/ DayBegin
    \/ GenerateQueries
    \/ MatchQuery
    \/ Auction
    \/ Click
    \/ Conversion
    \/ EndSegment
    \/ FinishDay
    \/ DayReturnToRun
    \/ RunReturn
    \/ CallSimulateDay
    \/ DayReturn

Spec == Init /\ [][Next]_vars

----------------------------------------------------------------------------
(* Specification SpecDay: one simulate_day on a state with competitors,   *)
(* several campaigns and small budgets, its generator of unknown seed.    *)

UserVariants ==
    {<<>>,
     <<User(<<1000 * FP>>, 7000)>>,
     <<User(<<1500>>, 7000)>>,
     <<User(<<1000 * FP, 1500>>, 7000)>>,
     <<User(<<1000 * FP>>, 400)>>}

DayStates ==
    {SimState(us \o cs, scenario_config(daily_baseline, secondary_share, 5000, 5000), 0) :
        us \in UserVariants, cs \in {<<>>, <<Competitor>>},
        daily_baseline \in {2, 4}, secondary_share \in {0, 5000}}

DayScript(d) ==
    <<[kind |-> "simulate_day", name |-> "D", seed |-> 0, n_days |-> d, seeded |-> FALSE]>>

InitDay ==
    /\ \E s \in DayStates : heap = [r \in Refs |-> IF r = "arg" THEN s ELSE NullState]
    /\ tape = [k \in TapeSeeds |-> <<>>]
    /\ rng = NoGenerator
    /\ \E d \in 1..MaxDays : script = DayScript(d)
    /\ call = IdleCall
    /\ run = IdleRun
    /\ day = IdleDay
    /\ results = [n \in Names |-> NoReturn]
    /\ auction_call = NoAuctionCall
    /\ cpc_call = NoCpcCall
    /\ unit_call = NoUnitCall
    /\ task_layer = NoTaskLayer

NextDay ==
    \/ CallSimulateDay
    \/ DayBegin
    \/ GenerateQueries
    \/ MatchQuery
    \/ Auction
    \/ Click
    \/ Conversion
    \/ EndSegment
    \/ FinishDay
    \/ DayReturn

SpecDay == InitDay /\ [][NextDay]_vars

----------------------------------------------------------------------------
(* Specification SpecAuction: one call of run_auction or of calculate_cpc  *)
(* on arguments drawn from bounded sets.                                   *)

MaxEntries == 3

Advertisers == {"u", "c"}
Bids == {FP, 3 * FP}
QualityScores == {0, 500, 7000}

AuctionEntry(i, advertiser_id, bid, quality_score) ==
    [advertiser_id |-> advertiser_id, keyword_id |-> "k" \o ToString(i),
     ad_id |-> "a" \o ToString(i), bid |-> bid, quality_score |-> quality_score,
     context_factor |-> FP, format_factor |-> FP]

EntryLists ==
    UNION {{[i \in 1..n |-> AuctionEntry(i, a[i], b[i], q[i])] :
                a \in [1..n -> Advertisers], b \in [1..n -> Bids],
                q \in [1..n -> QualityScores]} : n \in 0..MaxEntries}

BudgetMaps ==
    {NoBudget,
     Budget([id \in {"u"} |-> 0]),
     Budget([id \in {"u", "c"} |-> IF id = "u" THEN 5 * FP ELSE 0 - FP])}

NoResult == [positions |-> <<>>, total_eligible |-> 0, total_shown |-> 0]

AuctionInputs ==
    [called : {FALSE}, entries : EntryLists, max_positions : {1, 2, default_max_positions},
     min_ad_rank : {0, default_min_ad_rank}, budget_remaining : BudgetMaps,
     rng : {NoRng, WithRng(<<>>)}, result : {NoResult}]

CpcQualityScores == {100, 3000, 7000, FP}

CpcInputs ==
    [called : {FALSE}, winner_ad_rank : {FP}, qs1 : CpcQualityScores, qs2 : CpcQualityScores,
     winner_context : {5000, FP, 15000}, next_ad_rank : {0, default_min_ad_rank, 2 * FP},
     min_cpc : {0 - 100, default_min_cpc, FP}, epsilon : {0, default_epsilon},
     cpc1 : {0}, cpc2 : {0}]

InitAuction ==
    /\ heap = [r \in Refs |-> NullState]
    /\ tape = [k \in TapeSeeds |-> <<>>]
    /\ rng = NoGenerator
    /\ script = <<>>
    /\ call = IdleCall
    /\ run = IdleRun
    /\ day = IdleDay
    /\ results = [n \in Names |-> NoReturn]
    /\ unit_call = NoUnitCall
    /\ \/ auction_call \in AuctionInputs /\ cpc_call = NoCpcCall
       \/ auction_call = NoAuctionCall /\ cpc_call \in CpcInputs
    /\ task_layer = NoTaskLayer

\* run_auction(entries, query, max_positions, min_ad_rank, budget_remaining, rng)
CallRunAuction ==
    /\ auction_call # NoAuctionCall
    /\ ~auction_call.called
    /\ \E d \in [1..(IF auction_call.rng.none THEN 0
                     ELSE run_auction_draws(auction_call.entries, auction_call.max_positions,
                              auction_call.min_ad_rank, auction_call.budget_remaining))
                 -> RandVals] :
          auction_call' =
              [auction_call EXCEPT
                  !.called = TRUE,
                  !.rng = IF auction_call.rng.none THEN NoRng ELSE WithRng(d),
                  !.result = run_auction(auction_call.entries, auction_call.max_positions,
                                 auction_call.min_ad_rank, auction_call.budget_remaining,
                                 IF auction_call.rng.none THEN NoRng ELSE WithRng(d))]
    /\ UNCHANGED <<heap, tape, rng, script, call, run, day, results, cpc_call, unit_call, task_layer>>

\* calculate_cpc on two quality scores, everything else the same
CallCalculateCpc ==
    /\ cpc_call # NoCpcCall
    /\ ~cpc_call.called
    /\ cpc_call' =
           [cpc_call EXCEPT
               !.called = TRUE,
               !.cpc1 = calculate_cpc(cpc_call.winner_ad_rank, cpc_call.qs1,
                            cpc_call.winner_context, cpc_call.next_ad_rank,
                            cpc_call.min_cpc, cpc_call.epsilon),
               !.cpc2 = calculate_cpc(cpc_call.winner_ad_rank, cpc_call.qs2,
                            cpc_call.winner_context, cpc_call.next_ad_rank,
                            cpc_call.min_cpc, cpc_call.epsilon)]
    /\ UNCHANGED <<heap, tape, rng, script, call, run, day, results, auction_call, unit_call, task_layer>>

NextAuction ==
    \/ CallRunAuction
    \/ CallCalculateCpc

SpecAuction == InitAuction /\ [][NextAuction]_vars

----------------------------------------------------------------------------
(* Specification SpecBid: run_auction called twice with the same generator *)
(* seed, on an entry list and on the same list with one bid raised.        *)

RaisedBid == 4 * FP
BidQualityScores == {500, 7000}

BidEntryLists ==
    UNION {{[i \in 1..n |-> AuctionEntry(i, a[i], b[i], q[i])] :
                a \in [1..n -> Advertisers], b \in [1..n -> Bids],
                q \in [1..n -> BidQualityScores]} : n \in 1..MaxEntries}

\* The entry list with the bid of entry i replaced.
raise_bid(entries, i, bid) == [entries EXCEPT ![i].bid = bid]

BidInputs ==
    UNION {[kind : {"run_auction_bids"}, called : {FALSE}, entries : {es},
            index : 1..Len(es), max_positions : {1, 2},
            min_ad_rank : {0, default_min_ad_rank}, budget_remaining : BudgetMaps,
            rng : {NoRng, WithRng(<<>>)}, result_low : {NoResult},
            result_high : {NoResult}] : es \in BidEntryLists}

InitBid ==
    /\ heap = [r \in Refs |-> NullState]
    /\ tape = [k \in TapeSeeds |-> <<>>]
    /\ rng = NoGenerator
    /\ script = <<>>
    /\ call = IdleCall
    /\ run = IdleRun
    /\ day = IdleDay
    /\ results = [n \in Names |-> NoReturn]
    /\ auction_call = NoAuctionCall
    /\ cpc_call = NoCpcCall
    /\ unit_call \in BidInputs
    /\ task_layer = NoTaskLayer

\* The results of the two calls, the generators of both seeded alike: both
\* read the raw draws of r from the start.
bid_results(c, r) ==
    [c EXCEPT
        !.called = TRUE,
        !.rng = r,
        !.result_low = run_auction(c.entries, c.max_positions, c.min_ad_rank,
                           c.budget_remaining, r),
        !.result_high = run_auction(raise_bid(c.entries, c.index, RaisedBid),
                            c.max_positions, c.min_ad_rank, c.budget_remaining, r)]

\* run_auction(entries_low_bid, "q", rng=SeededRNG(seed)) and
\* run_auction(entries_high_bid, "q", rng=SeededRNG(seed))
CallRunAuctionBids ==
    /\ unit_call.kind = "run_auction_bids"
    /\ ~unit_call.called
    /\ \E d \in [1..(IF unit_call.rng.none THEN 0 ELSE MaxEntries) -> RandVals] :
          unit_call' = bid_results(unit_call, IF unit_call.rng.none THEN NoRng ELSE WithRng(d))
    /\ UNCHANGED <<heap, tape, rng, script, call, run, day, results, auction_call, cpc_call, task_layer>>

NextBid ==
    \/ CallRunAuctionBids

SpecBid == InitBid /\ [][NextBid]_vars

----------------------------------------------------------------------------
(* Specification SpecMatching: one call of match_keyword or of phrase_match *)
(* on texts drawn from bounded sets.                                        *)

MaxTokens == 3
MaxNegatives == 2

Words == {"villa", "dubai", "cheap"}

\* The token lists of up to MaxTokens words.
TokenLists == UNION {[1..n -> Words] : n \in 0..MaxTokens}

KeywordTexts == {<<>>, <<"villa">>, <<"villa", "dubai">>, <<"cheap", "villa", "dubai">>}

\* Query texts: the token lists, a text with a doubled space and a text with
\* a word between the keyword's words.
QueryTexts == TokenLists \cup {<<"villa", "", "dubai">>, <<"villa", "in", "dubai">>}

MatchTypes == {"exact", "phrase", "broad"}

NegativeKeyword(text, match_type) == [text |-> text, match_type |-> match_type]

NegativeTexts == {<<"cheap">>, <<"affordable">>, <<"villa", "dubai">>, <<"cheap", "villa", "dubai">>}

NegativeLists ==
    UNION {[1..n -> {NegativeKeyword(x, m) : x \in NegativeTexts, m \in MatchTypes}] :
               n \in 0..MaxNegatives}

NoMatchResult == [matched |-> FALSE, blocked_by_negative |-> FALSE, blocking_negative |-> <<>>]

MatchInputs ==
    [kind : {"match_keyword"}, called : {FALSE}, keyword : KeywordTexts, query : QueryTexts,
     match_type : MatchTypes, negatives : NegativeLists, learning_state : BOOLEAN,
     result : {NoMatchResult}]

PhraseInputs ==
    [kind : {"phrase_match"}, called : {FALSE}, keyword_tokens : TokenLists,
     query_tokens : TokenLists \cup {<<"villa", "in", "dubai">>}, result : {FALSE},
     exact : {FALSE}]

InitMatching ==
    /\ heap = [r \in Refs |-> NullState]
    /\ tape = [k \in TapeSeeds |-> <<>>]
    /\ rng = NoGenerator
    /\ script = <<>>
    /\ call = IdleCall
    /\ run = IdleRun
    /\ day = IdleDay
    /\ results = [n \in Names |-> NoReturn]
    /\ auction_call = NoAuctionCall
    /\ cpc_call = NoCpcCall
    /\ unit_call \in MatchInputs \cup PhraseInputs
    /\ task_layer = NoTaskLayer

\* match_keyword(keyword, query, match_type, negatives, learning_state)
CallMatchKeyword ==
    /\ unit_call.kind = "match_keyword"
    /\ ~unit_call.called
    /\ unit_call' =
           [unit_call EXCEPT
               !.called = TRUE,
               !.result = match_keyword(unit_call.keyword, unit_call.query,
                              unit_call.match_type, unit_call.negatives,
                              unit_call.learning_state)]
    /\ UNCHANGED <<heap, tape, rng, script, call, run, day, results, auction_call, cpc_call, task_layer>>

\* phrase_match and exact_match on the same token lists
CallPhraseMatch ==
    /\ unit_call.kind = "phrase_match"
    /\ ~unit_call.called
    /\ unit_call' =
           [unit_call EXCEPT
               !.called = TRUE,
               !.result = phrase_match(unit_call.keyword_tokens, unit_call.query_tokens),
               !.exact = exact_match(unit_call.keyword_tokens, unit_call.query_tokens)]
    /\ UNCHANGED <<heap, tape, rng, script, call, run, day, results, auction_call, cpc_call, task_layer>>

NextMatching ==
    \/ CallMatchKeyword
    \/ CallPhraseMatch

SpecMatching == InitMatching /\ [][NextMatching]_vars

----------------------------------------------------------------------------
(* Specification SpecStatus: one simulate_day on states whose campaign, ad  *)
(* group and keywords are paused or negative in every combination.          *)

Statuses == {"active", "paused"}

WithStatus(entity, status) == [entity EXCEPT !.status = status]

\* The user advertiser: one campaign with the ad group u_g1 of two keywords
\* on QueryA and the ad group u_g2 of one plain keyword on QueryA.
StatusUser(k1, k2, ad_group_status, campaign_status) ==
    Advertiser("u", TRUE, FP, 6000,
        <<WithStatus(Campaign("u_c1", 1000 * FP, 0,
              <<WithStatus(AdGroup("u_g1", 2 * FP, <<k1, k2>>), ad_group_status),
                AdGroup("u_g2", 3 * FP,
                        <<Keyword("u_k3", QueryA, "exact", None, FALSE, 7000)>>)>>),
              campaign_status)>>)

StatusKeywords(id, match_type) ==
    {WithStatus(Keyword(id, QueryA, match_type, None, is_negative, 7000), status) :
        is_negative \in BOOLEAN, status \in Statuses}

StatusStates ==
    {SimState(<<StatusUser(k1, k2, gs, cs)>>, scenario_config(2, 0, 5000, 5000), 0) :
        k1 \in StatusKeywords("u_k1", "exact"), k2 \in StatusKeywords("u_k2", "phrase"),
        gs \in Statuses, cs \in Statuses}

InitStatus ==
    /\ \E s \in StatusStates : heap = [r \in Refs |-> IF r = "arg" THEN s ELSE NullState]
    /\ tape = [k \in TapeSeeds |-> <<>>]
    /\ rng = NoGenerator
    /\ \E d \in 1..MaxDays : script = DayScript(d)
    /\ call = IdleCall
    /\ run = IdleRun
    /\ day = IdleDay
    /\ results = [n \in Names |-> NoReturn]
    /\ auction_call = NoAuctionCall
    /\ cpc_call = NoCpcCall
    /\ unit_call = NoUnitCall
    /\ task_layer = NoTaskLayer

SpecStatus == InitStatus /\ [][NextDay]_vars

----------------------------------------------------------------------------
(* Specification SpecCausal: one simulate_day, or one call of              *)
(* CausalLog.normalize on drivers drawn from a bounded set.                 *)

CausalStates ==
    {SimState(us \o cs, scenario_config(2, secondary_share, 5000, 5000), 0) :
        us \in UserVariants, cs \in {<<>>, <<Competitor>>}, secondary_share \in {0, 5000}}

DriverNames == {"budget_limited", "fraud"}
DriverWeights == {0 - 1000, 0, 1000, 4000}

\* The drivers dicts add_driver can have built from these names and weights.
DriverDicts == UNION {[S -> DriverWeights] : S \in SUBSET DriverNames}

NormalizeInputs ==
    [kind : {"normalize"}, called : {FALSE}, drivers : DriverDicts, result : {EmptyDict}]

InitCausal ==
    /\ tape = [k \in TapeSeeds |-> <<>>]
    /\ rng = NoGenerator
    /\ call = IdleCall
    /\ run = IdleRun
    /\ day = IdleDay
    /\ results = [n \in Names |-> NoReturn]
    /\ auction_call = NoAuctionCall
    /\ cpc_call = NoCpcCall
    /\ \/ /\ \E s \in CausalStates :
                heap = [r \in Refs |-> IF r = "arg" THEN s ELSE NullState]
          /\ \E d \in 1..MaxDays : script = DayScript(d)
          /\ unit_call = NoUnitCall
       \/ /\ heap = [r \in Refs |-> NullState]
          /\ script = <<>>
          /\ unit_call \in NormalizeInputs
    /\ task_layer = NoTaskLayer

\* log.normalize() on a CausalLog holding the drivers
CallNormalize ==
    /\ unit_call.kind = "normalize"
    /\ ~unit_call.called
    /\ unit_call' = [unit_call EXCEPT !.called = TRUE,
                                      !.result = normalize(unit_call.drivers)]
    /\ UNCHANGED <<heap, tape, rng, script, call, run, day, results, auction_call, cpc_call, task_layer>>

NextCausal ==
    \/ CallSimulateDay
    \/ DayBegin
    \/ GenerateQueries
    \/ MatchQuery
    \/ Auction
    \/ Click
    \/ Conversion
    \/ EndSegment
    \/ FinishDay
    \/ DayReturn
    \/ CallNormalize

SpecCausal == InitCausal /\ [][NextCausal]_vars

----------------------------------------------------------------------------
(* Specification SpecMonopoly: one simulate_day on the monopoly scenario,   *)
(* or on a one-advertiser state whose keyword is the text of a query.       *)

\* The only advertiser is the user: one campaign of budget 200, one ad group
\* with one ad and the broad keyword "buy villa dubai"; daily_baseline 100,
\* uniform splits, no fraud, no tracking loss.
MonopolyState ==
    SimState(<<Advertiser("u", TRUE, FP, 6000,
                  <<Campaign("u_c1", 200 * FP, 0,
                        <<AdGroup("u_g1", 5 * FP,
                              <<Keyword("u_k1", <<"buy", "villa", "dubai">>, "broad",
                                        None, FALSE, 7000)>>)>>)>>)>>,
             [demand_config |->
                  [daily_baseline |-> 100,
                   intent_split |-> [high |-> FP \div 3, medium |-> FP \div 3, low |-> FP \div 3],
                   device_split |-> [mobile |-> FP \div 2, desktop |-> FP \div 2],
                   geo_split |-> [primary |-> FP \div 2, secondary |-> FP \div 2],
                   time_split |-> [morning |-> FP \div 4, afternoon |-> FP \div 4,
                                   evening |-> FP \div 4, night |-> FP \div 4]],
              fraud_rate |-> 0, tracking_loss_rate |-> 0],
             0)

MonopolyStates ==
    {MonopolyState,
     SimState(<<User(<<1000 * FP>>, 7000)>>, scenario_config(2, 0, 5000, 5000), 0)}

InitMonopoly ==
    /\ \E s \in MonopolyStates : heap = [r \in Refs |-> IF r = "arg" THEN s ELSE NullState]
    /\ tape = [k \in TapeSeeds |-> <<>>]
    /\ rng = NoGenerator
    /\ \E d \in 1..MaxDays : script = DayScript(d)
    /\ call = IdleCall
    /\ run = IdleRun
    /\ day = IdleDay
    /\ results = [n \in Names |-> NoReturn]
    /\ auction_call = NoAuctionCall
    /\ cpc_call = NoCpcCall
    /\ unit_call = NoUnitCall
    /\ task_layer = NoTaskLayer

SpecMonopoly == InitMonopoly /\ [][NextDay]_vars

----------------------------------------------------------------------------
(* Specification SpecFatigue: SimState.update_fatigue and a FatigueState    *)
(* of clicks.py fed the same impressions day after day.                     *)

MaxUpdates == 4
FatigueImpressions == {0, 120, 600, 1200, 2400}

\* FatigueState(): impressions_today = 0, cumulative_fatigue = 0.0
FatigueState == [impressions_today |-> 0, cumulative_fatigue |-> 0]

\* FatigueState.add_impressions
add_impressions(self, count) ==
    [self EXCEPT !.impressions_today = @ + count,
                 !.cumulative_fatigue =
                     Min(FP, @ + (count * FP) \div fatigue_scale)]

\* FatigueState.end_day
end_day(self) ==
    [self EXCEPT !.cumulative_fatigue = Mul(@, fatigue_decay),
                 !.impressions_today = 0]

\* A SimState with an empty fatigue_state (every key reads 0.0) and a
\* fresh FatigueState for the same advertiser and segment.
InitFatigue ==
    /\ heap = [r \in Refs |-> NullState]
    /\ tape = [k \in TapeSeeds |-> <<>>]
    /\ rng = NoGenerator
    /\ script = <<>>
    /\ call = IdleCall
    /\ run = IdleRun
    /\ day = IdleDay
    /\ results = [n \in Names |-> NoReturn]
    /\ auction_call = NoAuctionCall
    /\ cpc_call = NoCpcCall
    /\ unit_call = [kind |-> "fatigue", called |-> FALSE, pc |-> "update", updates |-> 0,
                    impressions |-> 0,
                    state |-> [fatigue_state |-> <<0>>],
                    fatigue |-> FatigueState]
    /\ task_layer = NoTaskLayer

\* new_state.update_fatigue(user_adv.id, segment_key, segment_impressions)
CallUpdateFatigue ==
    /\ unit_call.kind = "fatigue"
    /\ unit_call.pc = "update"
    /\ unit_call.updates < MaxUpdates
    /\ \E n \in FatigueImpressions :
          unit_call' = [unit_call EXCEPT !.called = TRUE,
                                         !.pc = "add",
                                         !.impressions = n,
                                         !.state = update_fatigue(@, 1, n)]
    /\ UNCHANGED <<heap, tape, rng, script, call, run, day, results, auction_call, cpc_call, task_layer>>

\* fatigue.add_impressions(segment_impressions)
CallAddImpressions ==
    /\ unit_call.kind = "fatigue"
    /\ unit_call.pc = "add"
    /\ unit_call' = [unit_call EXCEPT !.pc = "end_day",
                                      !.fatigue = add_impressions(@, unit_call.impressions)]
    /\ UNCHANGED <<heap, tape, rng, script, call, run, day, results, auction_call, cpc_call, task_layer>>

\* fatigue.end_day()
CallEndDay ==
    /\ unit_call.kind = "fatigue"
    /\ unit_call.pc = "end_day"
    /\ unit_call' = [unit_call EXCEPT !.pc = "update",
                                      !.updates = @ + 1,
                                      !.fatigue = end_day(@)]
    /\ UNCHANGED <<heap, tape, rng, script, call, run, day, results, auction_call, cpc_call, task_layer>>

NextFatigue ==
    \/ CallUpdateFatigue
    \/ CallAddImpressions
    \/ CallEndDay

SpecFatigue == InitFatigue /\ [][NextFatigue]_vars

----------------------------------------------------------------------------
(* Specification SpecCopy: simulate_day, then simulate_run, then the same  *)
(* simulate_day again, all on the caller's one SimState object.            *)

CopyScript(seed, d, n) ==
    <<[kind |-> "simulate_day", name |-> "A", seed |-> seed, n_days |-> d, seeded |-> TRUE],
      [kind |-> "simulate_run", name |-> "B", seed |-> seed, n_days |-> n, seeded |-> TRUE],
      [kind |-> "simulate_day", name |-> "D", seed |-> seed, n_days |-> d, seeded |-> TRUE]>>

InitCopy ==
    /\ \E s \in RunStates : heap = [r \in Refs |-> IF r = "arg" THEN s ELSE NullState]
    /\ tape = [k \in TapeSeeds |-> <<>>]
    /\ rng = NoGenerator
    /\ \E seed \in Seeds, d \in 1..MaxDays, n \in 1..MaxDays :
           script = CopyScript(seed, d, n)
    /\ call = IdleCall
    /\ run = IdleRun
    /\ day = IdleDay
    /\ results = [n \in Names |-> NoReturn]
    /\ auction_call = NoAuctionCall
    /\ cpc_call = NoCpcCall
    /\ unit_call = NoUnitCall
    /\ task_layer = NoTaskLayer

SpecCopy == InitCopy /\ [][Next]_vars

----------------------------------------------------------------------------
(* Specification SpecTasks: run_simulation_days on one run, its            *)
(* run_simulation_day tasks taken from the broker by a pool of workers.    *)

MaxRunDays == 3
MaxRequests == 2
Workers == {"w1", "w2"}

\* A worker process and what its last task returned or raised.
IdleWorker == [pc |-> "idle", day_number |-> 0, returned |-> "none"]

Returned(status) == [pc |-> "idle", day_number |-> 0, returned |-> status]

\* The run row: days before start_day are simulated and stored.
RunRow(start_day, duration_days) ==
    [current_day |-> start_day - 1,
     status |-> IF start_day = 1 THEN "pending" ELSE "running",
     duration_days |-> duration_days]

\* A row of daily_results of the run.
DailyResult(day_number) == [day_number |-> day_number]

\* The days of the run that have a DailyResult row.
stored_days(rows) == {rows[i].day_number : i \in 1..Len(rows)}

\* The table without the unique constraint: every commit succeeds.
no_unique_constraint(rows, day_number) == TRUE

\* uq_daily_results_run_day: the commit of a row of the run for day_number
\* succeeds only when the table holds no row of that run and day.
uq_daily_results_run_day(rows, day_number) == day_number \notin stored_days(rows)

InitTasks ==
    /\ heap = [r \in Refs |-> NullState]
    /\ tape = [k \in TapeSeeds |-> <<>>]
    /\ rng = NoGenerator
    /\ script = <<>>
    /\ call = IdleCall
    /\ run = IdleRun
    /\ day = IdleDay
    /\ results = [n \in Names |-> NoReturn]
    /\ auction_call = NoAuctionCall
    /\ cpc_call = NoCpcCall
    /\ unit_call = NoUnitCall
    /\ \E first \in 1..MaxRunDays : \E last \in first..MaxRunDays :
       \E duration_days \in {last, MaxRunDays} :
          task_layer = [called |-> FALSE, start_day |-> first, end_day |-> last,
                        requests |-> 0,
                        queue |-> <<>>,
                        workers |-> [w \in Workers |-> IdleWorker],
                        run |-> RunRow(first, duration_days),
                        daily_results |-> [d \in 1..(first - 1) |-> DailyResult(d)]]

\* run_simulation_days(run_id, start_day, end_day): one
\* run_simulation_day.delay(run_id, day) per day, none waited for.
RunSimulationDays ==
    /\ ~task_layer.called
    /\ task_layer' =
          [task_layer EXCEPT
              !.called = TRUE,
              !.queue = @ \o [i \in 1..(task_layer.end_day - task_layer.start_day + 1) |->
                                 task_layer.start_day + i - 1]]
    /\ UNCHANGED <<heap, tape, rng, script, call, run, day, results, auction_call, cpc_call,
                   unit_call>>

\* A worker process without a task takes the oldest message of the queue
\* and enters run_simulation_day(run_id, day_number).
TaskStart(w) ==
    /\ task_layer.workers[w].pc = "idle"
    /\ task_layer.queue # <<>>
    /\ task_layer' =
          [task_layer EXCEPT
              !.queue = Tail(@),
              !.workers[w] = [pc |-> "check", day_number |-> Head(task_layer.queue),
                              returned |-> "none"]]
    /\ UNCHANGED <<heap, tape, rng, script, call, run, day, results, auction_call, cpc_call,
                   unit_call>>

\* Lines 60-81: the run is loaded; a stored DailyResult of the day ends the
\* task ("skipped"); otherwise the run is set to running and committed.
TaskCheck(w) ==
    /\ task_layer.workers[w].pc = "check"
    /\ IF task_layer.workers[w].day_number \in stored_days(task_layer.daily_results)
       THEN task_layer' = [task_layer EXCEPT !.workers[w] = Returned("skipped")]
       ELSE task_layer' = [task_layer EXCEPT !.workers[w].pc = "simulate",
                                             !.run.status = "running"]
    /\ UNCHANGED <<heap, tape, rng, script, call, run, day, results, auction_call, cpc_call,
                   unit_call>>

\* Lines 83-258: the state is built from the account's rows with
\* current_day = day_number - 1, and the engine simulates the day with
\* create_day_rng(run.rng_seed, day_number).  No row is written.
TaskSimulate(w) ==
    /\ task_layer.workers[w].pc = "simulate"
    /\ task_layer' = [task_layer EXCEPT !.workers[w].pc = "store"]
    /\ UNCHANGED <<heap, tape, rng, script, call, run, day, results, auction_call, cpc_call,
                   unit_call>>

\* Lines 260-307: the DailyResult is added, run.current_day = day_number,
\* the run is completed on its last day, and all is committed.  A row of the
\* same run and day (uq_daily_results_run_day) makes the commit raise: the
\* transaction is rolled back and the task is queued again (autoretry_for).
TaskStore(w) ==
    /\ task_layer.workers[w].pc = "store"
    /\ LET day_number == task_layer.workers[w].day_number
       IN  IF ~uq_daily_results_run_day(task_layer.daily_results, day_number)
           THEN task_layer' = [task_layer EXCEPT !.workers[w] = Returned("retry"),
                                                 !.queue = Append(@, day_number)]
           ELSE task_layer' =
                   [task_layer EXCEPT
                       !.workers[w] = Returned("success"),
                       !.daily_results = Append(@, DailyResult(day_number)),
                       !.run.current_day = day_number,
                       !.run.status = IF day_number >= task_layer.run.duration_days
                                      THEN "completed" ELSE @]
    /\ UNCHANGED <<heap, tape, rng, script, call, run, day, results, auction_call, cpc_call,
                   unit_call>>

NextTasks ==
    \/ RunSimulationDays
    \/ \E w \in Workers : TaskStart(w)
    \/ \E w \in Workers : TaskCheck(w)
    \/ \E w \in Workers : TaskSimulate(w)
    \/ \E w \in Workers : TaskStore(w)

SpecTasks == InitTasks /\ [][NextTasks]_vars

----------------------------------------------------------------------------
(* Specification SpecRuns: the run_simulation_day tasks of one run, queued *)
(* by run_simulation_days and by simulate-day requests of the API.         *)

\* POST /runs/{run_id}/simulate-day: 400 for a completed run; a run whose
\* current_day has reached duration_days is completed; otherwise
\* run_simulation_day.delay(run_id, run.current_day + 1).
SimulateDayRequest ==
    /\ task_layer.requests < MaxRequests
    /\ task_layer' =
          IF task_layer.run.status = "completed"
          THEN [task_layer EXCEPT !.requests = @ + 1]
          ELSE IF task_layer.run.current_day >= task_layer.run.duration_days
          THEN [task_layer EXCEPT !.requests = @ + 1, !.run.status = "completed"]
          ELSE [task_layer EXCEPT !.requests = @ + 1,
                                  !.queue = Append(@, task_layer.run.current_day + 1)]
    /\ UNCHANGED <<heap, tape, rng, script, call, run, day, results, auction_call, cpc_call,
                   unit_call>>

NextRuns ==
    \/ NextTasks
    \/ SimulateDayRequest

SpecRuns == InitTasks /\ [][NextRuns]_vars

----------------------------------------------------------------------------
(* Specification SpecEntries: one simulate_day on states whose keywords    *)
(* carry a bid_override or none, and whose first ad is active or paused.   *)

BidOverrides == {None, 0, 4 * FP}

\* The user: one ad group with an exact keyword on QueryB, an exact keyword
\* and a phrase keyword on QueryA, and two ads.
EntryUser(bid_override1, bid_override2, ad_status) ==
    Advertiser("u", TRUE, FP, 6000,
        <<Campaign("u_c1", 1000 * FP, 0,
              <<[AdGroup("u_g1", 2 * FP,
                         <<Keyword("u_k1", QueryB, "exact", bid_override1, FALSE, 7000),
                           Keyword("u_k2", QueryA, "exact", bid_override2, FALSE, 6000),
                           Keyword("u_k3", QueryA, "phrase", 5 * FP, FALSE, 5000)>>)
                 EXCEPT !.ads = <<WithStatus(Ad("u_ad1"), ad_status), Ad("u_ad2")>>]>>)>>)

EntryCompetitor(bid_override) ==
    Advertiser("comp", FALSE, 12000, 6000,
        <<Campaign("c_c1", 1000 * FP, 0,
              <<AdGroup("c_g1", 25000,
                        <<Keyword("c_k1", QueryA, "exact", bid_override, FALSE, 5000)>>)>>)>>)

EntryStates ==
    {SimState(<<EntryUser(b1, b2, ad_status)>> \o cs, scenario_config(2, 0, 0, 0), 0) :
        b1 \in BidOverrides, b2 \in BidOverrides, ad_status \in Statuses,
        cs \in {<<>>} \cup {<<EntryCompetitor(b)>> : b \in BidOverrides}}

InitEntries ==
    /\ \E s \in EntryStates : heap = [r \in Refs |-> IF r = "arg" THEN s ELSE NullState]
    /\ tape = [k \in TapeSeeds |-> <<>>]
    /\ rng = NoGenerator
    /\ \E d \in 1..MaxDays : script = DayScript(d)
    /\ call = IdleCall
    /\ run = IdleRun
    /\ day = IdleDay
    /\ results = [n \in Names |-> NoReturn]
    /\ auction_call = NoAuctionCall
    /\ cpc_call = NoCpcCall
    /\ unit_call = NoUnitCall
    /\ task_layer = NoTaskLayer

SpecEntries == InitEntries /\ [][NextDay]_vars

----------------------------------------------------------------------------
(* QualityScoreState of quality_score.py *)

ema_alpha == 1000
learning_phase_threshold == 1000

\* QualityScoreState.in_learning_phase
in_learning_phase(impressions_seen) == impressions_seen < learning_phase_threshold

\* QualityScoreState.update_ctr_ema: the new ctr_ema
update_ctr_ema(ctr_ema, actual_ctr, impressions_seen) ==
    LET alpha == IF in_learning_phase(impressions_seen) THEN ema_alpha * 2 ELSE ema_alpha
    IN  Mul(alpha, actual_ctr) + Mul(FP - alpha, ctr_ema)

\* QualityScoreState.update_from_day, the ctr_ema it leaves for a state
\* that has seen no impression before the day.
update_from_day(ctr_ema, impressions, clicks) ==
    IF impressions > 0
    THEN update_ctr_ema(ctr_ema, (clicks * FP) \div impressions, impressions)
    ELSE ctr_ema

----------------------------------------------------------------------------
(* Specification SpecMulti: one simulate_day on states whose user has two  *)
(* ad groups that match the same query, with high or low quality scores.   *)

KeywordQualityScores == {400, 7000}

\* The user: one campaign, the ad groups u_g1 and u_g2 each with one keyword
\* on QueryA.
MultiUser(qs1, qs2) ==
    Advertiser("u", TRUE, FP, 6000,
        <<Campaign("u_c1", 1000 * FP, 0,
              <<AdGroup("u_g1", 2 * FP,
                        <<Keyword("u_k1", QueryA, "exact", None, FALSE, qs1)>>),
                AdGroup("u_g2", 2 * FP,
                        <<Keyword("u_k2", QueryA, "phrase", None, FALSE, qs2)>>)>>)>>)

MultiStates ==
    {SimState(<<MultiUser(qs1, qs2)>> \o cs, scenario_config(2, 0, 5000, 5000), 0) :
        qs1 \in KeywordQualityScores, qs2 \in KeywordQualityScores,
        cs \in {<<>>, <<Competitor>>}}

InitMulti ==
    /\ \E s \in MultiStates : heap = [r \in Refs |-> IF r = "arg" THEN s ELSE NullState]
    /\ tape = [k \in TapeSeeds |-> <<>>]
    /\ rng = NoGenerator
    /\ \E d \in 1..MaxDays : script = DayScript(d)
    /\ call = IdleCall
    /\ run = IdleRun
    /\ day = IdleDay
    /\ results = [n \in Names |-> NoReturn]
    /\ auction_call = NoAuctionCall
    /\ cpc_call = NoCpcCall
    /\ unit_call = NoUnitCall
    /\ task_layer = NoTaskLayer

SpecMulti == InitMulti /\ [][NextDay]_vars

----------------------------------------------------------------------------
(* Properties of simulate_run against simulate_run and simulate_day, under *)
(* Spec                                                                    *)

\* C1: two calls of simulate_run with the same state, seed and n_days return
\* daily_metrics lists that are equal day by day in every field.
C1_Determinism ==
    (/\ results["A"].done
     /\ results["B"].done
     /\ results["A"].seed = results["B"].seed
     /\ results["A"].n_days = results["B"].n_days)
        => results["A"].daily_metrics = results["B"].daily_metrics

\* Two returned runs of MaxDays days with the same seed, with a click on day 1
\* and a conversion on the last day.
C1_Witness ==
    /\ results["A"].done
    /\ results["B"].done
    /\ results["A"].seed = results["B"].seed
    /\ results["A"].n_days = MaxDays
    /\ results["B"].n_days = MaxDays
    /\ results["B"].daily_metrics[1].clicks > 0
    /\ results["B"].daily_metrics[MaxDays].conversions > 0

\* C2: for N <= M, the N days of simulate_run(state, {}, seed, N) equal the
\* first N days of simulate_run(state, {}, seed, M).
C2_DayIndependencePrefix ==
    (/\ results["A"].done
     /\ results["B"].done
     /\ results["A"].seed = results["B"].seed
     /\ results["A"].n_days <= results["B"].n_days)
        => results["A"].daily_metrics
               = SubSeq(results["B"].daily_metrics, 1, results["A"].n_days)

\* A returned run of fewer days and a returned run of more days, with an
\* impression on day 1.
C2_Witness ==
    /\ results["A"].done
    /\ results["B"].done
    /\ results["A"].n_days < results["B"].n_days
    /\ results["A"].daily_metrics[1].impressions > 0
    /\ results["B"].daily_metrics[results["B"].n_days].impressions > 0

\* C3: simulate_day(state, [], N, create_day_rng(seed, N)) returns the same
\* metrics as daily_metrics[N-1] of simulate_run(state, {}, seed, N), which
\* ran days 1..N-1 first and carried their fatigue_state forward.
C3_DayNWithoutEarlierDays ==
    (/\ results["A"].done
     /\ results["D"].done
     /\ results["A"].seed = results["D"].seed
     /\ results["A"].n_days = results["D"].n_days)
        => results["D"].daily_metrics[1]
               = results["A"].daily_metrics[results["A"].n_days]

----------------------------------------------------------------------------
(* Properties of simulate_day, under SpecDay *)

InDay == day.pc \in {"segment", "query", "auction", "click", "conversion", "finish"}

CountersBounded(impressions, clicks, conversions, fraud, cost) ==
    /\ clicks <= impressions
    /\ conversions <= clicks
    /\ fraud <= clicks
    /\ impressions >= 0 /\ clicks >= 0 /\ conversions >= 0 /\ fraud >= 0
    /\ cost >= 0

MetricsBounded(m) ==
    /\ CountersBounded(m.impressions, m.clicks, m.conversions, m.fraud_clicks, m.cost)
    /\ m.revenue >= 0
    /\ m.tracking_lost_conversions >= 0

\* C4: after every processed query of simulate_day, and in the returned
\* DayMetrics, clicks <= impressions, conversions <= clicks and
\* fraud_clicks <= clicks, and all counters and cost are >= 0.
C4_CounterBounds ==
    /\ CountersBounded(day.total_impressions, day.total_clicks, day.total_conversions,
                       day.fraud_clicks, day.total_cost)
    /\ day.tracking_lost >= 0 /\ day.total_revenue >= 0
    /\ MetricsBounded(day.metrics)
    /\ \A n \in Names : \A i \in 1..Len(results[n].daily_metrics) :
           MetricsBounded(results[n].daily_metrics[i])

\* A returned day with more impressions than clicks, a fraud click and a
\* tracked conversion.
C4_Witness ==
    /\ results["D"].done
    /\ results["D"].daily_metrics[1].impressions > results["D"].daily_metrics[1].clicks
    /\ results["D"].daily_metrics[1].fraud_clicks > 0
    /\ results["D"].daily_metrics[1].conversions > 0
    /\ results["D"].daily_metrics[1].cost > 0

SharesBounded(m) ==
    /\ 0 <= m.impression_share /\ m.impression_share <= FP
    /\ 0 <= m.lost_is_budget /\ m.lost_is_budget <= FP
    /\ 0 <= m.lost_is_rank /\ m.lost_is_rank <= FP
    /\ m.impression_share + m.lost_is_budget + m.lost_is_rank <= FP

\* One step of a day changes the auction counters by at most one outcome,
\* and only together with eligible_auctions.
OneOutcome ==
    day'.pc # "none" =>
        /\ day'.won_auctions - day.won_auctions \in {0, 1}
        /\ day'.lost_budget - day.lost_budget \in {0, 1}
        /\ day'.lost_rank - day.lost_rank \in {0, 1}
        /\ day'.eligible_auctions - day.eligible_auctions \in {0, 1}
        /\ (day'.won_auctions - day.won_auctions)
           + (day'.lost_budget - day.lost_budget)
           + (day'.lost_rank - day.lost_rank)
               <= day'.eligible_auctions - day.eligible_auctions

\* C5: in every DayMetrics simulate_day returns, impression_share,
\* lost_is_budget and lost_is_rank are each in [0,1] and their sum is <= 1:
\* for each auction in which the user has an entry, at most one of the
\* counters won, lost_budget, lost_rank is incremented.
C5_SharesAtMostOne ==
    [][/\ OneOutcome
       /\ SharesBounded(day'.metrics)
       /\ \A n \in Names : \A i \in 1..Len(results'[n].daily_metrics) :
              SharesBounded(results'[n].daily_metrics[i])]_vars

\* A returned day in which the user won an auction and lost a later one to
\* budget, the two shares adding up to 1.
C5_Witness ==
    /\ results["D"].done
    /\ results["D"].daily_metrics[1].impression_share > 0
    /\ results["D"].daily_metrics[1].lost_is_budget > 0
    /\ results["D"].daily_metrics[1].impression_share
       + results["D"].daily_metrics[1].lost_is_budget = FP

\* The campaigns of the state the day works on, as <<advertiser, campaign>>.
CampaignsOf(state) ==
    {ac \in (1..Len(state.advertisers)) \X (1..2) :
        ac[2] <= Len(state.advertisers[ac[1]].campaigns)}

CampaignAt(state, ac) == state.advertisers[ac[1]].campaigns[ac[2]]

Exhausted(campaign) == campaign.daily_spend >= campaign.budget

KeywordIds(campaign) ==
    UNION {{campaign.ad_groups[g].keywords[k].id :
               k \in 1..Len(campaign.ad_groups[g].keywords)} :
           g \in 1..Len(campaign.ad_groups)}

BuiltFrom(entries, state, ac) ==
    \E i \in 1..Len(entries) :
        /\ entries[i].advertiser_id = state.advertisers[ac[1]].id
        /\ entries[i].keyword_id \in KeywordIds(CampaignAt(state, ac))

\* Within one day: a campaign with daily_spend >= budget stays so, the next
\* query builds no entry from it, and an impression counted in the step is
\* not one of its keywords.
StickyStep ==
    (InDay /\ day'.pc \notin {"none", "begin"}) =>
        \A ac \in CampaignsOf(heap[day.new_state]) :
            Exhausted(CampaignAt(heap[day.new_state], ac)) =>
                /\ Exhausted(CampaignAt(heap'[day.new_state], ac))
                /\ day'.query_no > day.query_no =>
                       ~BuiltFrom(day'.entries, heap[day.new_state], ac)
                /\ day'.total_impressions > day.total_impressions =>
                       day.user_pos.keyword_id
                           \notin KeywordIds(CampaignAt(heap[day.new_state], ac))

\* C6: once a campaign's daily_spend >= budget after some click, no later
\* query of that same day builds an AuctionEntry from that campaign, so it is
\* awarded no further impression until daily_spend is reset at the start of
\* the next day.
C6_BudgetExclusionSticky == [][StickyStep]_vars

\* After a click exhausted the user's campaign, a later query that matches
\* its keyword was processed and built no entry from it.
C6_Witness ==
    /\ InDay
    /\ day.total_clicks > 0
    /\ day.query_no >= 2
    /\ day.query = QueryA
    /\ day.pc # "click"
    /\ \E ac \in CampaignsOf(heap[day.new_state]) :
           /\ heap[day.new_state].advertisers[ac[1]].is_user
           /\ Exhausted(CampaignAt(heap[day.new_state], ac))
           /\ ~BuiltFrom(day.entries, heap[day.new_state], ac)

----------------------------------------------------------------------------
(* Properties of run_auction and calculate_cpc, under SpecAuction *)

AuctionCalled == auction_call # NoAuctionCall /\ auction_call.called
CpcCalled == cpc_call # NoCpcCall /\ cpc_call.called

\* The records of a result that were built from entry e.
RecordsOf(positions, e) ==
    {j \in 1..Len(positions) :
        /\ positions[j].advertiser_id = e.advertiser_id
        /\ positions[j].keyword_id = e.keyword_id
        /\ positions[j].ad_id = e.ad_id}

Winners(positions) == {j \in 1..Len(positions) : positions[j].won_auction}

BelowRank(c, e) == ad_rank(e) < c.min_ad_rank

OutOfBudget(c, e) ==
    /\ ad_rank(e) >= c.min_ad_rank
    /\ ~c.budget_remaining.none
    /\ e.advertiser_id \in DOMAIN c.budget_remaining.map
    /\ c.budget_remaining.map[e.advertiser_id] <= 0

Lost(p, reason) ==
    ~p.won_auction /\ p.position = 0 /\ p.cpc = 0 /\ p.loss_reason = reason

\* C7: run_auction returns every entry with ad_rank < min_ad_rank as a loss
\* with position 0, cpc 0 and loss_reason "rank", and every entry with
\* ad_rank >= min_ad_rank whose advertiser has budget_remaining <= 0 as a loss
\* with position 0, cpc 0 and loss_reason "budget"; no record of such an
\* entry holds a position.
C7_EligibilityFilter ==
    AuctionCalled =>
        \A i \in 1..Len(auction_call.entries) :
            LET e == auction_call.entries[i]
                ps == auction_call.result.positions
            IN  /\ BelowRank(auction_call, e) =>
                       /\ RecordsOf(ps, e) # {}
                       /\ \A j \in RecordsOf(ps, e) : Lost(ps[j], "rank")
                /\ OutOfBudget(auction_call, e) =>
                       /\ RecordsOf(ps, e) # {}
                       /\ \A j \in RecordsOf(ps, e) : Lost(ps[j], "budget")

\* An auction with an entry below the rank threshold, an entry out of
\* budget, and a winner.
C7_Witness ==
    /\ AuctionCalled
    /\ \E i \in 1..Len(auction_call.entries) : BelowRank(auction_call, auction_call.entries[i])
    /\ \E i \in 1..Len(auction_call.entries) : OutOfBudget(auction_call, auction_call.entries[i])
    /\ Winners(auction_call.result.positions) # {}

\* The number of entries that pass the rank filter and the budget filter.
EligibleCount(c) ==
    Cardinality({i \in 1..Len(c.entries) :
                    ~BelowRank(c, c.entries[i]) /\ ~OutOfBudget(c, c.entries[i])})

\* C8: run_auction returns exactly one record per input entry; with
\* k = min(number of eligible entries, max_positions), exactly k records have
\* won_auction = true, their positions are exactly 1..k without duplicates,
\* total_shown = k, and every other record has position 0 and cpc 0.
C8_PositionBijection ==
    AuctionCalled =>
        LET ps == auction_call.result.positions
            k == Min(EligibleCount(auction_call), auction_call.max_positions)
            W == Winners(ps)
        IN  /\ Len(ps) = Len(auction_call.entries)
            /\ \A i \in 1..Len(auction_call.entries) :
                   Cardinality(RecordsOf(ps, auction_call.entries[i])) = 1
            /\ Cardinality(W) = k
            /\ {ps[j].position : j \in W} = 1..k
            /\ \A j1, j2 \in W : j1 # j2 => ps[j1].position # ps[j2].position
            /\ auction_call.result.total_shown = k
            /\ \A j \in 1..Len(ps) : j \notin W => ps[j].position = 0 /\ ps[j].cpc = 0

\* An auction with a generator in which a lower-ranked winner got the better
\* position and an eligible entry was cut off by max_positions.
C8_Witness ==
    /\ AuctionCalled
    /\ ~auction_call.rng.none
    /\ auction_call.result.total_shown < EligibleCount(auction_call)
    /\ \E j1, j2 \in Winners(auction_call.result.positions) :
           /\ auction_call.result.positions[j1].ad_rank
                  > auction_call.result.positions[j2].ad_rank
           /\ auction_call.result.positions[j1].position
                  > auction_call.result.positions[j2].position

\* The entry a record was built from.
EntryOf(c, p) ==
    c.entries[CHOOSE i \in 1..Len(c.entries) :
                  /\ c.entries[i].advertiser_id = p.advertiser_id
                  /\ c.entries[i].keyword_id = p.keyword_id
                  /\ c.entries[i].ad_id = p.ad_id]

\* The price of the winner ps[j]: from the rank of the record that holds the
\* next position, or from min_ad_rank when no record holds it.
GspPrice(c, ps, j) ==
    LET nxt == {j2 \in Winners(ps) : ps[j2].position = ps[j].position + 1}
        r_next == IF nxt = {} THEN c.min_ad_rank
                  ELSE ps[CHOOSE j2 \in nxt : TRUE].ad_rank
        e == EntryOf(c, ps[j])
        qc == (e.quality_score * e.context_factor) \div FP
    IN  IF qc <= 0 THEN FP \div 100
        ELSE Max(FP \div 100, ((r_next * FP) \div qc) + (FP \div 100))

\* C9: the winner placed at position p is charged
\* max(0.01, r_next / (quality_score * context_factor) + 0.01), r_next being
\* the ad_rank of the entry allocated position p + 1, or min_ad_rank when no
\* entry holds position p + 1, even if eligible entries were cut off by
\* max_positions; the charge is min_cpc when quality_score * context_factor <= 0.
C9_GspPricing ==
    AuctionCalled =>
        \A j \in Winners(auction_call.result.positions) :
            auction_call.result.positions[j].cpc
                = GspPrice(auction_call, auction_call.result.positions, j)

\* An auction with a generator where the winner of position 1 is not the
\* top-ranked entry, and an eligible entry was cut off by max_positions.
C9_Witness ==
    /\ AuctionCalled
    /\ ~auction_call.rng.none
    /\ auction_call.result.total_shown >= 2
    /\ auction_call.result.total_shown < auction_call.result.total_eligible
    /\ \E j1, j2 \in Winners(auction_call.result.positions) :
           /\ auction_call.result.positions[j1].position = 1
           /\ auction_call.result.positions[j2].ad_rank
                  > auction_call.result.positions[j1].ad_rank

\* C10: for fixed winner_context > 0, next_ad_rank >= 0, min_cpc and epsilon,
\* and 0 < qs1 <= qs2, calculate_cpc at qs2 is at most calculate_cpc at qs1,
\* and no result is below min_cpc.
C10_CpcDecreasingInQs ==
    CpcCalled =>
        /\ (/\ 0 < cpc_call.qs1
            /\ cpc_call.qs1 <= cpc_call.qs2
            /\ cpc_call.winner_context > 0
            /\ cpc_call.next_ad_rank >= 0) => cpc_call.cpc2 <= cpc_call.cpc1
        /\ cpc_call.cpc1 >= cpc_call.min_cpc
        /\ cpc_call.cpc2 >= cpc_call.min_cpc

\* A call where the higher quality score pays strictly less, above the floor.
C10_Witness ==
    /\ CpcCalled
    /\ cpc_call.qs1 < cpc_call.qs2
    /\ cpc_call.cpc2 < cpc_call.cpc1
    /\ cpc_call.cpc2 > cpc_call.min_cpc

----------------------------------------------------------------------------
(* Properties of run_auction under a raised bid, under SpecBid *)

BidsCalled == unit_call.kind = "run_auction_bids" /\ unit_call.called

\* The record run_auction returned for the entry at index i of the list:
\* won_auction of that record.
WonBy(result, i) ==
    \E k \in 1..Len(result.positions) :
        /\ result.positions[k].keyword_id = unit_call.entries[i].keyword_id
        /\ result.positions[k].won_auction

\* C11: with the same entries, budget map and generator seed, an entry that
\* wins the auction still wins it when only its bid is raised.
C11_BidMonotoneWin ==
    BidsCalled => (WonBy(unit_call.result_low, unit_call.index)
                      => WonBy(unit_call.result_high, unit_call.index))

\* Sampled allocation, more eligible entries than slots: the entry lost with
\* the lower bid and wins with the raised one.
C11_Witness ==
    /\ BidsCalled
    /\ ~unit_call.rng.none
    /\ unit_call.result_low.total_eligible > unit_call.max_positions
    /\ ~WonBy(unit_call.result_low, unit_call.index)
    /\ WonBy(unit_call.result_high, unit_call.index)

----------------------------------------------------------------------------
(* Properties of match_keyword and phrase_match, under SpecMatching *)

MatchCalled == unit_call.kind = "match_keyword" /\ unit_call.called
PhraseCalled == unit_call.kind = "phrase_match" /\ unit_call.called

\* The tokens ks are the slice of qs that starts after its first i tokens.
SliceAt(ks, qs, i) ==
    /\ i + Len(ks) <= Len(qs)
    /\ \A j \in 1..Len(ks) : qs[i + j] = ks[j]

\* b is a itself, or the synonym table relates the two words: b is listed
\* under a, or a is listed under a key that is b or lists b.
Synonymous(a, b) ==
    \/ a = b
    \/ a \in DOMAIN SYNONYMS /\ b \in SYNONYMS[a]
    \/ \E k \in DOMAIN SYNONYMS : a \in SYNONYMS[k] /\ (b = k \/ b \in SYNONYMS[k])

\* The negative blocks the query under the negative's own match type.
BlocksUnderOwnType(neg, qs) ==
    LET ns == tokenize(neg.text)
    IN  \/ neg.match_type = "exact" /\ ns = qs
        \/ neg.match_type = "phrase" /\ ns # <<>> /\ \E i \in 0..Len(qs) : SliceAt(ns, qs, i)
        \/ neg.match_type = "broad"
              /\ \E i \in 1..Len(ns), j \in 1..Len(qs) : Synonymous(ns[i], qs[j])

\* The positions in the negatives list of the negatives that block the call.
Blockers(c) ==
    {i \in 1..Len(c.negatives) : BlocksUnderOwnType(c.negatives[i], tokenize(c.query))}

\* C12: match_keyword reports blocked_by_negative exactly when the keyword
\* positively matches and some negative blocks the query under the negative's
\* type; then matched is false and blocking_negative is the text of the first
\* such negative in list order.
C12_NegativeBlocking ==
    MatchCalled =>
        LET positive == positive_match(unit_call.keyword, unit_call.query,
                            unit_call.match_type, unit_call.learning_state)
            bs == Blockers(unit_call)
        IN  /\ unit_call.result.blocked_by_negative = (positive /\ bs # {})
            /\ unit_call.result.blocked_by_negative =>
                   /\ ~unit_call.result.matched
                   /\ \E i \in bs :
                          /\ \A j \in bs : i <= j
                          /\ unit_call.result.blocking_negative = unit_call.negatives[i].text
            /\ unit_call.result.matched = (positive /\ bs = {})

\* A broad keyword blocked by the second negative of the list through a
\* synonym, the first negative being an exact negative that does not block.
C12_Witness ==
    /\ MatchCalled
    /\ unit_call.match_type = "broad"
    /\ unit_call.result.blocked_by_negative
    /\ Len(unit_call.negatives) = 2
    /\ unit_call.negatives[1].match_type = "exact"
    /\ unit_call.negatives[2] = NegativeKeyword(<<"affordable">>, "broad")
    /\ unit_call.result.blocking_negative = <<"affordable">>

\* C13: phrase_match is true exactly when the keyword tokens are non-empty
\* and equal a contiguous slice of the query tokens; every non-empty exact
\* match is a phrase match; "villa dubai" does not phrase-match
\* "villa in dubai" nor "dubai villa".
C13_PhraseContiguous ==
    PhraseCalled =>
        /\ unit_call.result =
               (/\ unit_call.keyword_tokens # <<>>
                /\ \E i \in 0..Len(unit_call.query_tokens) :
                       SliceAt(unit_call.keyword_tokens, unit_call.query_tokens, i))
        /\ (unit_call.exact /\ unit_call.keyword_tokens # <<>>) => unit_call.result
        /\ (/\ unit_call.keyword_tokens = <<"villa", "dubai">>
            /\ unit_call.query_tokens \in {<<"villa", "in", "dubai">>, <<"dubai", "villa">>,
                                           <<"villa", "cheap", "dubai">>})
               => ~unit_call.result

\* A phrase found after the first token of a longer query.
C13_Witness ==
    /\ PhraseCalled
    /\ unit_call.result
    /\ ~unit_call.exact
    /\ Len(unit_call.keyword_tokens) = 2
    /\ Len(unit_call.query_tokens) = 3
    /\ ~SliceAt(unit_call.keyword_tokens, unit_call.query_tokens, 0)

----------------------------------------------------------------------------
(* Properties of the entries simulate_day builds, under SpecStatus *)

\* The keywords of the state with their place in the tree, as
\* <<advertiser, campaign, ad group, keyword>>.
KeywordSites(state) ==
    UNION {UNION {UNION {{<<state.advertisers[a], state.advertisers[a].campaigns[c],
                            state.advertisers[a].campaigns[c].ad_groups[g],
                            state.advertisers[a].campaigns[c].ad_groups[g].keywords[k]>> :
                  k \in 1..Len(state.advertisers[a].campaigns[c].ad_groups[g].keywords)} :
              g \in 1..Len(state.advertisers[a].campaigns[c].ad_groups)} :
          c \in 1..Len(state.advertisers[a].campaigns)} :
      a \in 1..Len(state.advertisers)}

\* The keyword is a positive, active keyword of an active ad group of an
\* active campaign.
ActiveSite(site) ==
    /\ ~site[4].is_negative
    /\ site[4].status = "active"
    /\ site[3].status = "active"
    /\ site[2].status = "active"

\* The query matches the keyword and no negative keyword of the keyword's own
\* ad group blocks it.
MatchesInOwnGroup(site, query) ==
    /\ positive_match(site[4].text, query, site[4].match_type, TRUE)
    /\ \A k \in 1..Len(site[3].keywords) :
           site[3].keywords[k].is_negative
               => ~BlocksUnderOwnType(site[3].keywords[k], tokenize(query))

\* C14: every entry passed to run_auction carries the id of a keyword that
\* is not negative and is active in an active ad group of an active
\* campaign; the negatives of one ad group take no entry away from another.
C14_NoNegativeOrInactiveEntry ==
    day.pc = "auction" =>
        LET sites == KeywordSites(heap[day.new_state])
        IN  /\ \A i \in 1..Len(day.entries) :
                   /\ \E s \in sites : s[4].id = day.entries[i].keyword_id
                   /\ \A s \in sites :
                          s[4].id = day.entries[i].keyword_id => ActiveSite(s)
            /\ \A s \in sites :
                   (ActiveSite(s) /\ MatchesInOwnGroup(s, day.query))
                       => \E i \in 1..Len(day.entries), k \in 1..Len(s[3].keywords) :
                              day.entries[i].keyword_id = s[3].keywords[k].id

\* Entries were built while an ad group holds an active negative keyword
\* that blocks the query and a paused positive keyword; the other ad group
\* gave its entry.
C14_Witness ==
    /\ day.pc = "auction"
    /\ day.entries # <<>>
    /\ \E s \in KeywordSites(heap[day.new_state]) :
           /\ s[4].is_negative
           /\ s[4].status = "active"
           /\ s[3].status = "active"
           /\ BlocksUnderOwnType(s[4], tokenize(day.query))
    /\ \E s \in KeywordSites(heap[day.new_state]) :
           /\ ~s[4].is_negative
           /\ s[4].status = "paused"
           /\ positive_match(s[4].text, day.query, s[4].match_type, TRUE)

----------------------------------------------------------------------------
(* Properties of simulate_day without a user advertiser, under SpecDay *)

NoUserIn(state) == \A i \in 1..Len(state.advertisers) : ~state.advertisers[i].is_user

\* The metrics of day d with every counter, average and share 0 and no
\* causal driver.
ZeroMetrics(m, d) ==
    /\ m.day = d
    /\ m.impressions = 0 /\ m.clicks = 0 /\ m.conversions = 0
    /\ m.cost = 0 /\ m.revenue = 0
    /\ m.avg_position = 0 /\ m.avg_quality_score = 0
    /\ m.impression_share = 0 /\ m.lost_is_budget = 0 /\ m.lost_is_rank = 0
    /\ m.fraud_clicks = 0 /\ m.tracking_lost_conversions = 0
    /\ DOMAIN m.causal_log = {}

\* C15: on a state without an advertiser with is_user, simulate_day goes
\* from its setup straight to its return, and returns the zero metrics of
\* the day with an empty causal log.
C15_NoUserZeroMetrics ==
    NoUserIn(heap["arg"]) =>
        /\ (call.kind = "simulate_day" /\ day.pc \notin {"none", "begin"})
               => (day.pc = "return" /\ ZeroMetrics(day.metrics, call.n_days))
        /\ results["D"].done
               => ZeroMetrics(results["D"].daily_metrics[1], results["D"].n_days)

\* simulate_day returned on a state that holds a competitor and no user.
C15_Witness ==
    /\ results["D"].done
    /\ NoUserIn(heap["arg"])
    /\ heap["arg"].advertisers # <<>>
    /\ results["D"].n_days = MaxDays

----------------------------------------------------------------------------
(* Properties of the causal log, under SpecCausal *)

\* The weights are each in (0, 1] and sum to 1, up to one unit of the
\* arithmetic's resolution per weight.
Normalized(log) ==
    /\ \A k \in DOMAIN log : 0 < log[k] /\ log[k] <= FP
    /\ SumSet(log, DOMAIN log) <= FP
    /\ SumSet(log, DOMAIN log) >= FP - Cardinality(DOMAIN log)

\* C16: the causal log of every DayMetrics simulate_day returns is empty or
\* normalized; normalize leaves a log that is empty or whose weights total 0
\* or less as it is.
C16_CausalNormalized ==
    /\ day.pc = "return"
           => (DOMAIN day.metrics.causal_log = {} \/ Normalized(day.metrics.causal_log))
    /\ results["D"].done
           => (\/ DOMAIN results["D"].daily_metrics[1].causal_log = {}
               \/ Normalized(results["D"].daily_metrics[1].causal_log))
    /\ (/\ unit_call.kind = "normalize"
        /\ unit_call.called
        /\ SumSet(unit_call.drivers, DOMAIN unit_call.drivers) <= 0)
           => unit_call.result = unit_call.drivers

\* A returned day whose causal log holds budget_limited and another driver,
\* with different weights.
C16_Witness ==
    /\ results["D"].done
    /\ "budget_limited" \in DOMAIN results["D"].daily_metrics[1].causal_log
    /\ \E k \in DOMAIN results["D"].daily_metrics[1].causal_log :
           results["D"].daily_metrics[1].causal_log[k]
               < results["D"].daily_metrics[1].causal_log["budget_limited"]

----------------------------------------------------------------------------
(* Properties of the monopoly scenario, under SpecMonopoly *)

\* C17: on the monopoly scenario the generated queries match the user's
\* keyword, the user takes part in auctions and wins them all: the day has
\* impressions > 0 and impression_share = 1.
C17_MonopolyWinsAll ==
    (results["D"].done /\ heap["arg"] = MonopolyState)
        => /\ results["D"].daily_metrics[1].impressions > 0
           /\ results["D"].daily_metrics[1].impression_share = FP

----------------------------------------------------------------------------
(* Properties of update_fatigue against FatigueState, under SpecFatigue *)

\* C18: after every day, the fatigue stored by update_fatigue is the value
\* a FatigueState holds after add_impressions and end_day on the same
\* impressions, and it lies in [0, decay].
C18_FatigueCapsBeforeDecay ==
    (unit_call.kind = "fatigue" /\ unit_call.called /\ unit_call.pc = "update")
        => /\ unit_call.state.fatigue_state[1] = unit_call.fatigue.cumulative_fatigue
           /\ unit_call.state.fatigue_state[1] >= 0
           /\ unit_call.state.fatigue_state[1] <= fatigue_decay

----------------------------------------------------------------------------
(* Properties of the caller's SimState, under SpecCopy *)

\* The object passed in holds the same value in every field after the step.
ArgUnchanged == heap'["arg"] = heap["arg"]

\* C19: no step of simulate_day or of simulate_run changes a field of the
\* SimState object passed in, and simulate_day called again on it with a
\* fresh generator of the same seed returns what the first call returned.
C19_InputStateUnchanged ==
    /\ [][ArgUnchanged]_vars
    /\ []((results["A"].done /\ results["D"].done)
            => results["D"].daily_metrics = results["A"].daily_metrics)

\* All three calls have returned, the first day had impressions, and a
\* working copy is left whose day, fatigue and spend differ from the input.
C19_Witness ==
    /\ results["A"].done /\ results["B"].done /\ results["D"].done
    /\ results["A"].daily_metrics[1].impressions > 0
    /\ \E r \in Refs \ {"arg"} :
          /\ heap[r] # NullState
          /\ heap[r].current_day # heap["arg"].current_day
          /\ heap[r].fatigue_state # heap["arg"].fatigue_state
          /\ heap[r].advertisers # heap["arg"].advertisers

----------------------------------------------------------------------------
(* Properties of the task layer, under SpecTasks *)

\* The tasks that start in the step
Starting(w) ==
    /\ task_layer.workers[w].pc = "idle"
    /\ task_layer'.workers[w].pc = "check"

\* A task that starts finds the DailyResult of the day before committed,
\* and run.current_day does not decrease.
InOrderStep ==
    /\ \A w \in Workers :
          (Starting(w) /\ task_layer'.workers[w].day_number > task_layer.start_day)
              => (task_layer'.workers[w].day_number - 1)
                     \in stored_days(task_layer.daily_results)
    /\ task_layer'.run.current_day >= task_layer.run.current_day

\* The days being simulated
DaysInProgress ==
    {w \in Workers : task_layer.workers[w].pc # "idle"}

\* C20: the task of day N+1 never starts before the task of day N has
\* committed its DailyResult, run.current_day never decreases, and no two
\* days of the run are simulated at the same time.
C20_DaysStrictlySequential ==
    /\ [][InOrderStep]_vars
    /\ [](Cardinality(DaysInProgress) <= 1)

----------------------------------------------------------------------------
(* Conversion accounting of simulate_day, under SpecDay *)

\* revenue = 100 * conversions, and conversions, lost conversions and fraud
\* clicks are different clicks.
ConversionsAccounted(clicks, conversions, tracking_lost, fraud, revenue) ==
    /\ revenue = 100 * FP * conversions
    /\ conversions + tracking_lost + fraud <= clicks

\* What the step of simulate_day adds to a counter of its frame.
Added(field) == day'[field] - day[field]

\* The sampling of a conversion adds one to conversions, with revenue 100,
\* or one to tracking_lost, or nothing; a fraud click is charged and is not
\* followed by the sampling of a conversion.
ConversionStep ==
    /\ (day.pc = "conversion" /\ day'.pc # "conversion")
          => /\ Added("total_conversions") + Added("tracking_lost") \in {0, 1}
             /\ Added("total_conversions") \in {0, 1}
             /\ Added("total_revenue") = 100 * FP * Added("total_conversions")
             /\ Added("total_clicks") = 0 /\ Added("fraud_clicks") = 0
    /\ (day.pc = "click" /\ day'.pc # "click" /\ Added("fraud_clicks") = 1)
          => /\ Added("total_clicks") = 1
             /\ Added("total_cost") = day.user_pos.cpc
             /\ day'.pc # "conversion"
    /\ (day.pc \in {"query", "auction", "click", "conversion"}
           /\ day'.pc \in {"query", "auction", "click", "conversion", "finish"}
           /\ day.pc # "conversion")
          => /\ Added("total_conversions") = 0
             /\ Added("tracking_lost") = 0
             /\ Added("total_revenue") = 0

\* C22: every sampled conversion of a non-fraud click counts as exactly one
\* of conversions (with revenue 100) or tracking_lost_conversions; fraud
\* clicks are charged and never converted; so revenue = 100 * conversions
\* and conversions + tracking_lost_conversions + fraud_clicks <= clicks
\* during the day and in the returned DayMetrics.
C22_ConversionAccounting ==
    /\ [][ConversionStep]_vars
    /\ [](/\ ConversionsAccounted(day.total_clicks, day.total_conversions,
                                  day.tracking_lost, day.fraud_clicks, day.total_revenue)
          /\ results["D"].done =>
                LET m == results["D"].daily_metrics[1]
                IN  ConversionsAccounted(m.clicks, m.conversions,
                                         m.tracking_lost_conversions, m.fraud_clicks,
                                         m.revenue))

\* A returned day with a tracked conversion, an untracked one, a fraud
\* click and a click that did not convert.
C22_Witness ==
    /\ results["D"].done
    /\ LET m == results["D"].daily_metrics[1]
       IN  /\ m.conversions > 0
           /\ m.tracking_lost_conversions > 0
           /\ m.fraud_clicks > 0
           /\ m.conversions + m.tracking_lost_conversions + m.fraud_clicks < m.clicks

----------------------------------------------------------------------------
(* Properties of the construction of entries, under SpecEntries *)

\* The places of the keyword an entry names.
SitesOf(state, entry) ==
    {s \in KeywordSites(state) : s[4].id = entry.keyword_id}

\* No keyword of the ad group before this one is tried and matches.
FirstMatch(site, query) ==
    \A k \in 1..Len(site[3].keywords) :
        LET other == <<site[1], site[2], site[3], site[3].keywords[k]>>
        IN  (\E j \in (k + 1)..Len(site[3].keywords) : site[3].keywords[j] = site[4])
                => ~(ActiveSite(other) /\ MatchesInOwnGroup(other, query))

\* The ad is the first active ad of the ad group.
FirstActiveAd(ad_group, ad_id) ==
    \E a \in 1..Len(ad_group.ads) :
        /\ ad_group.ads[a].id = ad_id
        /\ ad_group.ads[a].status = "active"
        /\ \A b \in 1..(a - 1) : ad_group.ads[b].status # "active"

\* bid_override when it is not null, else default_bid; times bid_multiplier
\* for a competitor.
OverrideBid(site) ==
    LET bid == IF site[4].bid_override # None
               THEN site[4].bid_override ELSE site[3].default_bid
    IN  IF site[1].is_user THEN bid ELSE Mul(bid, site[1].bid_multiplier)

EntryFrom(site, entry, query) ==
    /\ ActiveSite(site)
    /\ site[2].budget - site[2].daily_spend > 0
    /\ MatchesInOwnGroup(site, query)
    /\ FirstMatch(site, query)
    /\ FirstActiveAd(site[3], entry.ad_id)
    /\ entry.advertiser_id = site[1].id
    /\ entry.quality_score = IF site[1].is_user THEN site[4].quality_score
                             ELSE site[1].base_quality_score

\* C23: the entries built for a query are at most one per ad group, each
\* from the first active positive keyword that matches and the first active
\* ad of an active ad group of an active campaign with budget left; the bid
\* is bid_override whenever that is not null, else default_bid, times
\* bid_multiplier for competitors; the quality score is the keyword's for
\* the user and base_quality_score for competitors.
C23_EntryConstruction ==
    day.pc = "auction" =>
        LET state == heap[day.new_state]
        IN  /\ \A i \in 1..Len(day.entries) :
                   /\ SitesOf(state, day.entries[i]) # {}
                   /\ \A s \in SitesOf(state, day.entries[i]) :
                          /\ EntryFrom(s, day.entries[i], day.query)
                          /\ day.entries[i].bid = OverrideBid(s)
            /\ \A i, j \in 1..Len(day.entries) :
                   (\E s \in SitesOf(state, day.entries[i]) :
                    \E r \in SitesOf(state, day.entries[j]) : s[3].id = r[3].id)
                       => i = j

----------------------------------------------------------------------------
(* The keyword state simulate_day returns, under SpecDay *)

\* The user's keywords in a state.
UserSites(state) == {s \in KeywordSites(state) : s[1].is_user}

\* C24: at the end of simulate_day the state of a user keyword that
\* received the day's impressions is updated from the day's totals: its
\* ctr_ema has moved toward clicks / impressions.  Stated for a user with
\* one keyword, which has received every impression of the day.
C24_QualityScorePostPass ==
    (day.pc = "return" /\ day.total_impressions > 0
        /\ Cardinality(UserSites(heap[day.state])) = 1)
        => \A s \in UserSites(heap[day.new_state]) :
           \A old \in UserSites(heap[day.state]) :
               s[4].ctr_ema = update_from_day(old[4].ctr_ema, day.total_impressions,
                                              day.total_clicks)

----------------------------------------------------------------------------
(* The campaign spend of simulate_day, under SpecDay *)

\* The campaigns of a state as <<advertiser index, campaign index>>.
CampaignIndexes(state) ==
    {<<a, c>> \in (1..Len(state.advertisers)) \X (1..MaxEntries) :
        c <= Len(state.advertisers[a].campaigns)}

\* The campaign holds the keyword.
Owns(campaign, keyword_id) ==
    \E g \in 1..Len(campaign.ad_groups) :
    \E k \in 1..Len(campaign.ad_groups[g].keywords) :
        campaign.ad_groups[g].keywords[k].id = keyword_id

\* A click of the step adds the CPC to the daily_spend of the campaign of
\* the keyword that entered the auction, and to no other campaign.
LocalDebitStep ==
    (day.pc = "click" /\ day'.total_clicks = day.total_clicks + 1)
        => \A ac \in CampaignIndexes(heap[day.new_state]) :
              LET before == heap[day.new_state].advertisers[ac[1]].campaigns[ac[2]]
                  after == heap'[day.new_state].advertisers[ac[1]].campaigns[ac[2]]
              IN  after.daily_spend =
                      IF Owns(before, day.user_pos.keyword_id)
                      THEN before.daily_spend + day.user_pos.cpc
                      ELSE before.daily_spend

\* C25: a click debits its CPC from the campaign that owns the keyword which
\* entered the auction and leaves the daily_spend of every other campaign
\* unchanged; the cost of the day is the sum of the debits.
C25_ClickDebitLocal ==
    /\ [][LocalDebitStep]_vars
    /\ [](day.pc = "return" /\ day.user > 0 =>
             LET campaigns == heap[day.new_state].advertisers[day.user].campaigns
             IN  SumSeq([c \in 1..Len(campaigns) |-> campaigns[c].daily_spend])
                     = day.total_cost)

----------------------------------------------------------------------------
(* The order of the eligible entries of run_auction, under SpecAuction *)

\* advertiser_id ascending, on the ids of Advertisers.
IdBefore(a, b) == a = "c" /\ b = "u"

\* ad_rank descending, then advertiser_id ascending.
CanonicalBefore(p, q) ==
    \/ p.ad_rank > q.ad_rank
    \/ p.ad_rank = q.ad_rank /\ IdBefore(p.advertiser_id, q.advertiser_id)

\* The records of the entries that were eligible: shown, or cut off by
\* max_positions.
EligibleRecords(c) ==
    {j \in 1..Len(c.result.positions) :
        \/ c.result.positions[j].won_auction
        \/ /\ c.result.positions[j].loss_reason = "rank"
           /\ c.result.positions[j].ad_rank >= c.min_ad_rank}

\* C26: the eligible entries are ordered by ad_rank descending and, among
\* equal ad_rank, by advertiser_id ascending, whatever the order of the
\* input list: an entry is cut off by max_positions only when the entries
\* before it in that order are shown, and without a generator the positions
\* follow that order.
C26_CanonicalTieBreak ==
    AuctionCalled =>
        LET ps == auction_call.result.positions
        IN  \A i, j \in EligibleRecords(auction_call) :
                CanonicalBefore(ps[i], ps[j]) =>
                    /\ ps[j].won_auction => ps[i].won_auction
                    /\ (auction_call.rng.none /\ ps[i].won_auction /\ ps[j].won_auction)
                           => ps[i].position < ps[j].position

----------------------------------------------------------------------------
(* The price of a winner against its own bid, under SpecAuction *)

\* C28: no winner pays more than it bid: every record of run_auction with
\* won_auction = true, whose entry has format_factor 1 and
\* quality_score * context_factor > 0, has
\* cpc <= max(min_cpc, bid + epsilon), whatever the generator draws.
C28_NoWinnerOverpays ==
    AuctionCalled =>
        \A j \in Winners(auction_call.result.positions) :
            LET p == auction_call.result.positions[j]
                e == EntryOf(auction_call, p)
            IN  (e.format_factor = FP /\ (e.quality_score * e.context_factor) \div FP > 0)
                    => p.cpc <= Max(default_min_cpc, e.bid + default_epsilon)

----------------------------------------------------------------------------
(* The user's result of an auction with several user entries, under SpecMulti *)

\* The auction of the current query has just been run.
AuctionStep == day.pc = "auction" /\ day'.pc # "auction"

UserWon(d) ==
    \E j \in 1..Len(d.positions) :
        /\ d.positions[j].advertiser_id = heap[d.new_state].advertisers[d.user].id
        /\ d.positions[j].won_auction

WonCounted ==
    (AuctionStep /\ UserWon(day')) =>
        /\ day'.won_auctions = day.won_auctions + 1
        /\ day'.lost_rank = day.lost_rank
        /\ day'.lost_budget = day.lost_budget
        /\ day'.pc = "click"
        /\ day'.user_pos.won_auction
        /\ day'.user_pos.position >= 1

\* C29: an auction in which at least one entry of the user has
\* won_auction = true is counted as won, whichever entry won and however
\* many entries the user had: won_auctions is incremented, lost_rank and
\* lost_budget are not, and the click is sampled at a winning record's
\* position and cpc.
C29_WonWhicheverEntry == [][WonCounted]_vars

----------------------------------------------------------------------------
(* Budget losses with at most one campaign per advertiser, under SpecDay *)

OneCampaignEach(state) ==
    \A i \in 1..Len(state.advertisers) : Len(state.advertisers[i].campaigns) <= 1

NoBudgetLossIn(m) ==
    m.lost_is_budget = 0 /\ "budget_limited" \notin DOMAIN m.causal_log

\* Within a day on a state with at most one campaign per advertiser: no
\* record is a budget loss, every advertiser with an entry has budget left
\* in the map passed to run_auction, and lost_budget stays 0.
NoBudgetLoss ==
    (InDay /\ OneCampaignEach(heap[day.new_state])) =>
        /\ \A j \in 1..Len(day.positions) : day.positions[j].loss_reason # "budget"
        /\ day.pc = "auction" =>
               \A i \in 1..Len(day.entries) :
                   LET b == budget_remaining_of(heap[day.new_state])
                   IN  /\ day.entries[i].advertiser_id \in DOMAIN b.map
                       /\ b.map[day.entries[i].advertiser_id] > 0
        /\ day.lost_budget = 0
        /\ NoBudgetLossIn(day.metrics)

UserExhausted(d) ==
    \E c \in 1..Len(heap[d.new_state].advertisers[d.user].campaigns) :
        Exhausted(heap[d.new_state].advertisers[d.user].campaigns[c])

\* A query that arrives when the user's campaign has spent its budget is
\* not counted as an eligible auction.
ExhaustedStep ==
    (day.pc \in {"query", "auction"} /\ OneCampaignEach(heap[day.new_state])
        /\ UserExhausted(day))
        => /\ day'.eligible_auctions = day.eligible_auctions
           /\ day'.lost_budget = day.lost_budget

\* C30: with at most one campaign per advertiser, simulate_day returns no
\* entry with loss_reason "budget": a campaign with budget - daily_spend <= 0
\* emits no entry and the budget_remaining passed to run_auction is positive
\* for every advertiser with an entry, so lost_is_budget is 0, the causal log
\* holds no budget_limited, and queries arriving after the user's budget is
\* exhausted are not counted as eligible auctions.
C30_NoBudgetLossOneCampaign ==
    /\ [](NoBudgetLoss)
    /\ []((results["D"].done /\ OneCampaignEach(heap["arg"]))
             => NoBudgetLossIn(results["D"].daily_metrics[1]))
    /\ [][ExhaustedStep]_vars

\* A query that arrived after the one campaign of the user had spent its
\* budget on a click: the auction is about to run on the competitor's entry
\* alone.
C30_Witness ==
    /\ day.pc = "auction"
    /\ OneCampaignEach(heap[day.new_state])
    /\ UserExhausted(day)
    /\ day.total_clicks > 0
    /\ day.eligible_auctions < day.query_no
    /\ day.entries # <<>>
    /\ \A i \in 1..Len(day.entries) :
           day.entries[i].advertiser_id # heap[day.new_state].advertisers[day.user].id

----------------------------------------------------------------------------
(* The status of a run and the rows of its days, under SpecRuns *)

FinalStatuses == {"completed", "failed", "cancelled"}

StatusStep ==
    /\ task_layer.run.status = "pending"
           => task_layer'.run.status \in {"pending", "running"}
    /\ task_layer.run.status = "running"
           => task_layer'.run.status \in {"running"} \cup FinalStatuses
    /\ task_layer.run.status \in FinalStatuses
           => task_layer'.run.status # "running"

CompletedHasAllDays ==
    task_layer.run.status = "completed"
        => \A d \in 1..task_layer.run.duration_days :
               d \in stored_days(task_layer.daily_results)

\* C21: the status of a run only moves along
\* pending -> running -> (completed | failed | cancelled) under every
\* interleaving of run_simulation_day tasks and simulate-day requests: never
\* from pending directly to completed, never back to running once it is
\* completed, failed or cancelled, and whenever it is completed every day
\* 1..duration_days has a DailyResult.
C21_StatusTransitions ==
    /\ [][StatusStep]_vars
    /\ [](CompletedHasAllDays)

RowsOf(rows, day_number) == {i \in 1..Len(rows) : rows[i].day_number = day_number}

\* A task that found a row of its day at the idempotency check.
SkipStep ==
    \A w \in Workers :
        (/\ task_layer.workers[w].pc = "check"
         /\ task_layer'.workers[w] # task_layer.workers[w]
         /\ task_layer.workers[w].day_number \in stored_days(task_layer.daily_results))
            => /\ task_layer'.workers[w].returned = "skipped"
               /\ task_layer'.run = task_layer.run
               /\ task_layer'.daily_results = task_layer.daily_results

\* C27: under every interleaving of concurrent or retried run_simulation_day
\* tasks of the same run and day, at most one DailyResult row of that day is
\* ever committed, and a task that finds a row of its day returns "skipped"
\* and changes neither run.current_day nor the stored rows.
C27_DuplicateDayIdempotent ==
    /\ [](\A d \in 1..MaxRunDays :
              Cardinality(RowsOf(task_layer.daily_results, d)) <= 1)
    /\ [][SkipStep]_vars

\* Two tasks of the same day simulated at once: the commit of one raised
\* and it was queued again, the retry found the row and was skipped.
C27_Witness ==
    /\ \E w1, w2 \in Workers :
           /\ task_layer.workers[w1].returned = "retry"
           /\ task_layer.workers[w2].returned = "skipped"
    /\ task_layer.requests = MaxRequests
    /\ task_layer.queue = <<>>

====
